---- MODULE Spec2Model ----
(***************************************************************************)
(* Model of the SPILUK level-scheduling handle                             *)
(* (src/src/sparse/KokkosSparse_spiluk_handle.hpp) and of the symbolic     *)
(* level-scheduling pass that fills it.                                    *)
(*                                                                         *)
(* Arrays (Kokkos views) are sequences; the code's 0-based index i is the  *)
(* sequence position i + 1 (operators At and Upd).                         *)
(***************************************************************************)
EXTENDS Integers, Sequences, FiniteSets, TLC

\* ------------------------------------------------------------------ bounds
\* Largest matrix dimension a caller passes.
MaxRows == 3
\* Width in bits of the unsigned size_type the handle is instantiated with.
SizeBits == 3
\* Largest tuned chunk size of the chunked (TP1) policy.
MaxChunk == 2
MaxLen == 3
MaxNv == 2
MaxNe == 2
MaxWords == 4
MaxCols == 4

RECURSIVE Pow2(_)
Pow2(k) == IF k = 0 THEN 1 ELSE 2 * Pow2(k - 1)

SizeMod == Pow2(SizeBits)

\* A caller's signed value converted to the handle's unsigned size_type.
ToSizeType(v) == v % SizeMod

\* Dimensions a caller passes: valid ones and a negative one.
DimInputs == (-1) .. MaxRows
\* Fill estimates a caller passes: a negative one, and a valid one.
NnzInputs == {-1, MaxRows}
\* Extents alloc_iw is called with.
IwDims == {0, 1}
\* Lengths alloc_level_nchunks / alloc_level_nrowsperchunk are called with.
ChunkLens == {0, 2}

Algorithms == {"SEQLVLSCHD_RP", "SEQLVLSCHD_TP1"}

\* Names handed to StringToSPILUKAlgorithm: the three known ones and others.
AlgorithmNames ==
  {"SPILUK_DEFAULT", "SPILUK_RANGEPOLICY", "SPILUK_TEAMPOLICY1",
   "SPILUK_TEAMPOLICY2", ""}

\* ------------------------------------------------------------------- state
VARIABLES
  level_list, level_idx, level_ptr, level_nchunks, level_nrowsperchunk, iw,
  nrows, nlevels, nnzL, nnzU, level_maxrows, level_maxrowsperchunk,
  symbolic_complete, algm, team_size, vector_size,
  op,     \* name of the last operation called on the handle
  args,   \* its arguments
  ret,    \* its outcome: [kind |-> "void" | "view" | "value" | "throw", val |-> ..]
  pre,    \* what held just before it: [complete, iw_dirty, nlevels]
  pc,     \* position of the symbolic pass
  pat,    \* the CRS pattern the symbolic pass works on
  last,   \* the schedule the caller kept of an earlier completed pass
  call,   \* the last call of a free function: [fn, in, out]
  file,   \* the file the readers and writers work on
  gen     \* the random matrix generator at work: its arguments and locals

arrays == <<level_list, level_idx, level_ptr, level_nchunks, level_nrowsperchunk>>
scalars == <<nrows, nlevels, nnzL, nnzU, level_maxrows, level_maxrowsperchunk>>
tuning == <<algm, team_size, vector_size>>
pass == <<pc, pat, last>>
util == <<call, file, gen>>
handle == <<arrays, iw, scalars, symbolic_complete, tuning>>
vars == <<handle, op, args, ret, pre, pass, util>>

\* --------------------------------------------------------------- helpers
At(s, i) == s[i + 1]
Upd(s, i, v) == [s EXCEPT ![i + 1] = v]

Max(S) == CHOOSE x \in S : \A y \in S : y <= x
Min2(a, b) == IF a <= b THEN a ELSE b

Void == [kind |-> "void", val |-> 0]
Throw(what) == [kind |-> "throw", val |-> what]
ViewRet(v) == [kind |-> "view", val |-> v]
ValueRet(v) == [kind |-> "value", val |-> v]

\* Largest extent a view allocation can satisfy; a wrapped-around or negative
\* extent asks for more memory than exists and the allocation throws.
MaxAlloc == SizeMod - 2
ViewAllocFails(n) == n > MaxAlloc

\* Kokkos::View<T*>(label, n): n entries, value-initialised to 0.
AllocViewUninit(n) == [i \in 1 .. n |-> 1]
AllocView(n) == [i \in 1 .. n |-> 0]

\* A default-constructed one-dimensional view: no entries.
EmptyView == <<>>

\* work_view_t(): a default-constructed two-dimensional view, extent 0 x 0.
EmptyIw == [ext0 |-> 0, ext1 |-> 0, val |-> [p \in {} |-> 0]]

\* The sentinel alloc_iw fills iw with.
IwSentinel == -1

IwFilled(r, c, v) ==
  [ext0 |-> r, ext1 |-> c, val |-> [p \in (0 .. r - 1) \X (0 .. c - 1) |-> v]]

IwDirty(w) == \E p \in DOMAIN w.val : w.val[p] # IwSentinel

Pre == [complete |-> symbolic_complete, iw_dirty |-> IwDirty(iw), nlevels |-> nlevels]

is_symbolic_complete == symbolic_complete
get_nrows == nrows
get_nnzL == nnzL
get_nnzU == nnzU
get_num_levels == nlevels
get_level_maxrows == level_maxrows
get_level_maxrowsperchunk == level_maxrowsperchunk
get_iw == iw
get_algorithm == algm
get_team_size == team_size
get_vector_size == vector_size

\* ------------------------------------------------------------ constructor
\* SPILUKHandle(choice, nrows_, nnzL_, nnzU_, symbolic_complete_ = false)
Constructor_nlevels(choice, nrows_, nnzL_, nnzU_, symbolic_complete_) ==
  /\ level_list = EmptyView
  /\ level_idx = EmptyView
  /\ level_ptr = EmptyView
  /\ level_nchunks = EmptyView
  /\ level_nrowsperchunk = EmptyView
  /\ iw = EmptyIw
  /\ nrows = nrows_
  /\ nlevels = nrows_
  /\ nnzL = nnzL_
  /\ nnzU = nnzU_
  /\ level_maxrows = 0
  /\ level_maxrowsperchunk = 0
  /\ symbolic_complete = symbolic_complete_
  /\ algm = choice
  /\ team_size = -1
  /\ vector_size = -1

Constructor(choice, nrows_, nnzL_, nnzU_, symbolic_complete_) ==
  /\ level_list = EmptyView
  /\ level_idx = EmptyView
  /\ level_ptr = EmptyView
  /\ level_nchunks = EmptyView
  /\ level_nrowsperchunk = EmptyView
  /\ iw = EmptyIw
  /\ nrows = nrows_
  /\ nlevels = 0
  /\ nnzL = nnzL_
  /\ nnzU = nnzU_
  /\ level_maxrows = 0
  /\ level_maxrowsperchunk = 0
  /\ symbolic_complete = symbolic_complete_
  /\ algm = choice
  /\ team_size = -1
  /\ vector_size = -1

EmptyPattern == [row_map |-> <<0>>, entries |-> <<>>]

NoRun == [done |-> FALSE]
NoCall == [fn |-> "none"]
NoFile == [format |-> "none"]
NoGen == [pc |-> "none"]

\* A handle constructed with arguments from the given sets; nothing has run.
Constructed(Algs, Dims, Nnzs, Flags) ==
  \E choice \in Algs, nrows_ \in Dims, nnzL_ \in Nnzs,
     nnzU_ \in Nnzs, symbolic_complete_ \in Flags :
    /\ Constructor(choice, ToSizeType(nrows_), ToSizeType(nnzL_),
                   ToSizeType(nnzU_), symbolic_complete_)
    /\ op = "SPILUKHandle"
    /\ args = <<choice, nrows_, nnzL_, nnzU_, symbolic_complete_>>
    /\ ret = Void
    /\ pre = [complete |-> FALSE, iw_dirty |-> FALSE, nlevels |-> 0]
    /\ pc = "idle"
    /\ pat = EmptyPattern
    /\ last = NoRun
    /\ call = NoCall
    /\ file = NoFile
    /\ gen = NoGen

Init == Constructed(Algorithms, DimInputs, NnzInputs, BOOLEAN)

\* ------------------------------------------------------------ scalar setters
set_nrows(nrows_) == nrows' = nrows_
set_nnzL(nnzL_) == nnzL' = nnzL_
set_nnzU(nnzU_) == nnzU' = nnzU_
set_num_levels(nlevels_) == nlevels' = nlevels_
set_level_maxrows(level_maxrows_) == level_maxrows' = level_maxrows_
set_level_maxrowsperchunk_lost(level_maxrowsperchunk_) ==
  level_maxrowsperchunk' = level_maxrowsperchunk

set_level_maxrowsperchunk(level_maxrowsperchunk_) ==
  level_maxrowsperchunk' = level_maxrowsperchunk_

set_algorithm(choice) == algm' = choice
set_team_size(ts) == team_size' = ts
set_vector_size(vs) == vector_size' = vs

\* ----------------------------------------------------------- reset_handle
\* The six scalar setters run first; the views are then assigned left to
\* right in one comma expression, reset_symbolic_complete() between
\* level_nrowsperchunk and iw.  An allocation that throws leaves everything
\* after it undone.
reset_handle_noclear(nrows_, nnzL_, nnzU_) ==
  /\ set_nrows(nrows_)
  /\ set_num_levels(0)
  /\ set_nnzL(nnzL_)
  /\ set_nnzU(nnzU_)
  /\ set_level_maxrows(0)
  /\ set_level_maxrowsperchunk(0)
  /\ IF ViewAllocFails(nrows_) \/ ViewAllocFails((nrows_ + 1) % SizeMod)
       THEN /\ UNCHANGED <<arrays, symbolic_complete, iw>>
            /\ ret' = Throw("allocation")
       ELSE /\ level_list' = AllocView(nrows_)
            /\ level_idx' = AllocView(nrows_)
            /\ level_ptr' = AllocView((nrows_ + 1) % SizeMod)
            /\ UNCHANGED <<level_nchunks, level_nrowsperchunk,
                           symbolic_complete, iw>>
            /\ ret' = Void
  /\ UNCHANGED tuning

reset_handle_reuse(nrows_, nnzL_, nnzU_) ==
  /\ set_nrows(nrows_)
  /\ set_num_levels(0)
  /\ set_nnzL(nnzL_)
  /\ set_nnzU(nnzU_)
  /\ set_level_maxrows(0)
  /\ set_level_maxrowsperchunk(0)
  /\ IF ViewAllocFails(nrows_) \/ ViewAllocFails((nrows_ + 1) % SizeMod)
       THEN /\ UNCHANGED <<arrays, symbolic_complete, iw>>
            /\ ret' = Throw("allocation")
       ELSE /\ level_list' = AllocView(nrows_)
            /\ level_idx' = AllocView(nrows_)
            /\ level_ptr' = IF Len(level_ptr) = nrows_ + 1 THEN level_ptr
                             ELSE AllocView((nrows_ + 1) % SizeMod)
            /\ level_nchunks' = EmptyView
            /\ level_nrowsperchunk' = EmptyView
            /\ symbolic_complete' = FALSE
            /\ iw' = EmptyIw
            /\ ret' = Void
  /\ UNCHANGED tuning

reset_handle_retune(nrows_, nnzL_, nnzU_) ==
  /\ set_nrows(nrows_)
  /\ set_num_levels(0)
  /\ set_nnzL(nnzL_)
  /\ set_nnzU(nnzU_)
  /\ set_level_maxrows(0)
  /\ set_level_maxrowsperchunk(0)
  /\ IF ViewAllocFails(nrows_)
       THEN /\ UNCHANGED <<arrays, symbolic_complete, iw>>
            /\ ret' = Throw("allocation")
       ELSE IF ViewAllocFails((nrows_ + 1) % SizeMod)
         THEN /\ level_list' = AllocView(nrows_)
              /\ level_idx' = AllocView(nrows_)
              /\ UNCHANGED <<level_ptr, level_nchunks, level_nrowsperchunk,
                             symbolic_complete, iw>>
              /\ ret' = Throw("allocation")
         ELSE /\ level_list' = AllocView(nrows_)
              /\ level_idx' = AllocView(nrows_)
              /\ level_ptr' = AllocView((nrows_ + 1) % SizeMod)
              /\ level_nchunks' = EmptyView
              /\ level_nrowsperchunk' = EmptyView
              /\ symbolic_complete' = FALSE
              /\ iw' = EmptyIw
              /\ ret' = Void
  /\ UNCHANGED algm
  /\ set_team_size(-1)
  /\ set_vector_size(-1)

reset_handle(nrows_, nnzL_, nnzU_) ==
  /\ set_nrows(nrows_)
  /\ set_num_levels(0)
  /\ set_nnzL(nnzL_)
  /\ set_nnzU(nnzU_)
  /\ set_level_maxrows(0)
  /\ set_level_maxrowsperchunk(0)
  /\ IF ViewAllocFails(nrows_)
       THEN /\ UNCHANGED <<arrays, symbolic_complete, iw>>
            /\ ret' = Throw("allocation")
       ELSE IF ViewAllocFails((nrows_ + 1) % SizeMod)
         THEN /\ level_list' = AllocView(nrows_)
              /\ level_idx' = AllocView(nrows_)
              /\ UNCHANGED <<level_ptr, level_nchunks, level_nrowsperchunk,
                             symbolic_complete, iw>>
              /\ ret' = Throw("allocation")
         ELSE /\ level_list' = AllocView(nrows_)
              /\ level_idx' = AllocView(nrows_)
              /\ level_ptr' = AllocView((nrows_ + 1) % SizeMod)
              /\ level_nchunks' = EmptyView
              /\ level_nrowsperchunk' = EmptyView
              /\ symbolic_complete' = FALSE
              /\ iw' = EmptyIw
              /\ ret' = Void
  /\ UNCHANGED tuning

ResetHandle(nrows_, nnzL_, nnzU_) ==
  /\ pc = "idle"
  /\ reset_handle(ToSizeType(nrows_), ToSizeType(nnzL_), ToSizeType(nnzU_))
  /\ op' = "reset_handle"
  /\ args' = <<nrows_, nnzL_, nnzU_>>
  /\ pre' = Pre
  /\ UNCHANGED <<pass, util>>

\* An operation that touches nothing of the handle but what it names.
Call(name, a) ==
  /\ pc = "idle"
  /\ op' = name
  /\ args' = a
  /\ pre' = Pre
  /\ UNCHANGED <<pass, util>>

\* -------------------------------------------------- completion flag setters
set_symbolic_complete == symbolic_complete' = TRUE
reset_symbolic_complete == symbolic_complete' = FALSE

SetSymbolicComplete ==
  /\ Call("set_symbolic_complete", <<>>)
  /\ set_symbolic_complete
  /\ ret' = Void
  /\ UNCHANGED <<arrays, iw, scalars, tuning>>

ResetSymbolicComplete ==
  /\ Call("reset_symbolic_complete", <<>>)
  /\ reset_symbolic_complete
  /\ ret' = Void
  /\ UNCHANGED <<arrays, iw, scalars, tuning>>

\* ------------------------------------------------------ schedule accessors
\* Each returns the stored view; none looks at symbolic_complete.
get_level_list == ViewRet(level_list)
get_level_idx == ViewRet(level_idx)
get_level_ptr == ViewRet(level_ptr)
get_level_nchunks == ViewRet(level_nchunks)
get_level_nrowsperchunk == ViewRet(level_nrowsperchunk)

Getter(name, outcome) ==
  /\ Call(name, <<>>)
  /\ ret' = outcome
  /\ UNCHANGED <<arrays, iw, scalars, symbolic_complete, tuning>>

GetLevelList == Getter("get_level_list", get_level_list)
GetLevelIdx == Getter("get_level_idx", get_level_idx)
GetLevelPtr == Getter("get_level_ptr", get_level_ptr)
GetLevelNchunks == Getter("get_level_nchunks", get_level_nchunks)
GetLevelNrowsperchunk == Getter("get_level_nrowsperchunk", get_level_nrowsperchunk)
GetIw == Getter("get_iw", ViewRet(get_iw))

ScheduleAccessors ==
  {"get_level_list", "get_level_idx", "get_level_ptr", "get_level_nchunks",
   "get_level_nrowsperchunk"}

\* ------------------------------------------------------------- allocators
alloc_level_nchunks(nlevels_) ==
  IF ViewAllocFails(nlevels_)
    THEN /\ UNCHANGED level_nchunks
         /\ ret' = Throw("allocation")
    ELSE /\ level_nchunks' = AllocView(nlevels_)
         /\ ret' = Void

alloc_level_nrowsperchunk(nlevels_) ==
  IF ViewAllocFails(nlevels_)
    THEN /\ UNCHANGED level_nrowsperchunk
         /\ ret' = Throw("allocation")
    ELSE /\ level_nrowsperchunk' = AllocView(nlevels_)
         /\ ret' = Void

\* iw is allocated without initialisation and then deep_copy fills it with
\* nnz_lno_t(-1).
alloc_iw_uninit(nrows_, ncols_) ==
  /\ iw' = IwFilled(nrows_, ncols_, 0)
  /\ ret' = Void

alloc_iw(nrows_, ncols_) ==
  IF ViewAllocFails(nrows_) \/ ViewAllocFails(ncols_)
    THEN /\ UNCHANGED iw
         /\ ret' = Throw("allocation")
    ELSE /\ iw' = IwFilled(nrows_, ncols_, IwSentinel)
         /\ ret' = Void

AllocLevelNchunks(nlevels_) ==
  /\ Call("alloc_level_nchunks", <<nlevels_>>)
  /\ alloc_level_nchunks(ToSizeType(nlevels_))
  /\ UNCHANGED <<level_list, level_idx, level_ptr, level_nrowsperchunk, iw,
                 scalars, symbolic_complete, tuning>>

AllocLevelNrowsperchunk(nlevels_) ==
  /\ Call("alloc_level_nrowsperchunk", <<nlevels_>>)
  /\ alloc_level_nrowsperchunk(ToSizeType(nlevels_))
  /\ UNCHANGED <<level_list, level_idx, level_ptr, level_nchunks, iw,
                 scalars, symbolic_complete, tuning>>

AllocIw(nrows_, ncols_) ==
  /\ Call("alloc_iw", <<nrows_, ncols_>>)
  /\ alloc_iw(ToSizeType(nrows_), ToSizeType(ncols_))
  /\ UNCHANGED <<arrays, scalars, symbolic_complete, tuning>>

\* A kernel holding the view get_iw() returned stores a working position
\* (a value >= 0) into one of its entries; the view shares the handle's data.
IwWrite(r, c) ==
  /\ Call("iw_write", <<r, c>>)
  /\ <<r, c>> \in DOMAIN iw.val
  /\ iw' = [iw EXCEPT !.val[<<r, c>>] = 0]
  /\ ret' = Void
  /\ UNCHANGED <<arrays, scalars, symbolic_complete, tuning>>

\* ------------------------------------------------ StringToSPILUKAlgorithm
StringToSPILUKAlgorithm_nothrow(name) ==
  IF name = "SPILUK_DEFAULT" THEN ValueRet("SEQLVLSCHD_RP")
  ELSE IF name = "SPILUK_RANGEPOLICY" THEN ValueRet("SEQLVLSCHD_RP")
  ELSE IF name = "SPILUK_TEAMPOLICY1" THEN ValueRet("SEQLVLSCHD_TP1")
  ELSE ValueRet("SEQLVLSCHD_RP")

StringToSPILUKAlgorithm(name) ==
  IF name = "SPILUK_DEFAULT" THEN ValueRet("SEQLVLSCHD_RP")
  ELSE IF name = "SPILUK_RANGEPOLICY" THEN ValueRet("SEQLVLSCHD_RP")
  ELSE IF name = "SPILUK_TEAMPOLICY1" THEN ValueRet("SEQLVLSCHD_TP1")
  ELSE Throw("Invalid SPILUKAlgorithm name")

StringToAlgorithm(name) ==
  /\ Call("StringToSPILUKAlgorithm", <<name>>)
  /\ ret' = StringToSPILUKAlgorithm(name)
  /\ UNCHANGED <<arrays, iw, scalars, symbolic_complete, tuning>>

\* ------------------------------------------------------ matrix generators
\* (src/src/sparse/KokkosSparse_IOUtils.hpp)  A generated matrix is a record
\* [kind, nrows, ncols, nnz, rowPtr, colInd, values]; kind is "ok", "throw"
\* (an allocation of negative size) or "undefined" (a write past the end of
\* an array).

\* kk_generate_diag_matrix(n, invert): rowmap i, column i, value i + 1 (its
\* inverse is written as the pair <<1, i + 1>>).
kk_generate_diag_matrix(n, invert) ==
  [kind |-> "ok", nrows |-> n, ncols |-> n, nnz |-> n,
   rowPtr |-> [i \in 1 .. n + 1 |-> i - 1],
   colInd |-> [i \in 1 .. n |-> i - 1],
   values |-> [i \in 1 .. n |-> IF invert THEN <<1, i>> ELSE i]]

\* The first loop of kk_sparseMatrix_generate_lower_upper_triangle: row
\* `row` gets row + 1 entries for 'L' and ncols - row entries otherwise.
RECURSIVE TriRowPtr(_, _, _, _, _)
TriRowPtr(rp, uplo, row, nrows_, ncols_) ==
  IF row >= nrows_ THEN rp
  ELSE TriRowPtr(
         Append(rp, IF uplo = "L" THEN At(rp, row) + row + 1
                    ELSE At(rp, row) + ncols_ - row),
         uplo, row + 1, nrows_, ncols_)

\* The column written at position k of row `row`.
TriColumn_swapped(uplo, row, k, start) ==
  IF uplo = "U" THEN k - start ELSE row + (k - start)

TriColumn(uplo, row, k, start) ==
  IF uplo = "L" THEN k - start ELSE row + (k - start)

\* The second loop: every position k of every row is written; a position
\* at or past nnz is outside colInd and values.
RECURSIVE TriFill(_, _, _, _, _)
TriFill(m, uplo, rp, row, nrows_) ==
  IF row >= nrows_ THEN m
  ELSE LET range == At(rp, row) .. At(rp, row + 1) - 1
           oob == \E k \in range : k >= m.nnz
       IN TriFill(
            [m EXCEPT
               !.kind = IF oob THEN "undefined" ELSE @,
               !.colInd = [q \in DOMAIN @ |->
                            IF q - 1 \in range
                              THEN TriColumn(uplo, row, q - 1, At(rp, row))
                              ELSE @[q]],
               !.values = [q \in DOMAIN @ |-> IF q - 1 \in range THEN 1 ELSE @[q]]],
            uplo, rp, row + 1, nrows_)

kk_sparseMatrix_generate_lower_upper_triangle(uplo, nrows_, ncols_) ==
  LET rp == TriRowPtr(<<0>>, uplo, 0, nrows_, ncols_)
      nz == At(rp, nrows_)
  IN IF nz < 0
       THEN [kind |-> "throw", nrows |-> nrows_, ncols |-> ncols_, nnz |-> nz,
             rowPtr |-> rp, colInd |-> <<>>, values |-> <<>>]
       ELSE TriFill([kind |-> "ok", nrows |-> nrows_, ncols |-> ncols_,
                     nnz |-> nz, rowPtr |-> rp,
                     colInd |-> [q \in 1 .. nz |-> 0],
                     values |-> [q \in 1 .. nz |-> 0]],
                    uplo, rp, 0, nrows_)

\* The pattern of a generated matrix, as the symbolic pass takes it.
PatternOf(m) == [row_map |-> m.rowPtr, entries |-> m.colInd]

\* ----------------------------------------------------- the symbolic pass
\* The lower-triangular factor pattern in CRS form: each row lists its
\* off-diagonal columns (all < row) in ascending order and then its diagonal.
RECURSIVE SetToSeq(_)
SetToSeq(S) ==
  IF S = {} THEN <<>>
  ELSE LET m == CHOOSE x \in S : \A y \in S : x <= y
       IN <<m>> \o SetToSeq(S \ {m})

AppendRow(p, S, i) ==
  [row_map |-> Append(p.row_map, p.row_map[Len(p.row_map)] + Cardinality(S) + 1),
   entries |-> p.entries \o SetToSeq(S) \o <<i>>]

RECURSIVE LowerPatterns(_)
LowerPatterns(n) ==
  IF n = 0 THEN {EmptyPattern}
  ELSE {AppendRow(p, S, n - 1) : p \in LowerPatterns(n - 1),
                                 S \in SUBSET (0 .. n - 2)}

NumRows(p) == Len(p.row_map) - 1

\* The dependencies of row i: its off-diagonal columns j < i.
Deps(p, i) ==
  {At(p.entries, k) : k \in At(p.row_map, i) .. At(p.row_map, i + 1) - 1}
    \cap (0 .. i - 1)

\* level(i) = 1 + max level of its dependencies, 0 without dependencies.
LevelOfRow_nomax(ll, p, i) ==
  IF Deps(p, i) = {} THEN 0 ELSE i

LevelOfRow_offbyone(ll, p, i) ==
  IF Deps(p, i) = {} THEN 0 ELSE Max({At(ll, j) : j \in Deps(p, i)})

LevelOfRow(ll, p, i) ==
  IF Deps(p, i) = {} THEN 0 ELSE 1 + Max({At(ll, j) : j \in Deps(p, i)})

\* Rows are processed in index order, each reading the levels already stored.
RECURSIVE AssignLevels(_, _, _, _)
AssignLevels(ll, p, i, n) ==
  IF i >= n THEN ll
  ELSE AssignLevels(Upd(ll, i, LevelOfRow(ll, p, i)), p, i + 1, n)

\* Counting sort over level ids, in place in level_ptr: per-level counts are
\* added at position level + 1, then prefix-summed.
RECURSIVE CountLevels(_, _, _, _)
CountLevels(lp, ll, i, n) ==
  IF i >= n THEN lp
  ELSE CountLevels(Upd(lp, At(ll, i) + 1, At(lp, At(ll, i) + 1) + 1), ll, i + 1, n)

PrefixSum_none(lp, k, n) == lp

RECURSIVE PrefixSum(_, _, _)
PrefixSum(lp, k, n) ==
  IF k > n THEN lp
  ELSE PrefixSum(Upd(lp, k, At(lp, k) + At(lp, k - 1)), k + 1, n)

\* Scatter of the row ids with a per-level write cursor.
RECURSIVE Scatter(_, _, _, _, _)
Scatter(li, cursor, ll, i, n) ==
  IF i >= n THEN li
  ELSE LET l == At(ll, i)
           c == At(cursor, l)
       IN Scatter(IF c < Len(li) THEN Upd(li, c, i) ELSE li,
                  Upd(cursor, l, c + 1), ll, i + 1, n)

NumLevels(ll, n) == IF n = 0 THEN 0 ELSE 1 + Max({At(ll, i) : i \in 0 .. n - 1})
LevelSize(lp, k) == At(lp, k + 1) - At(lp, k)

\* The caller starts a pass on pattern p by resetting the handle to the
\* pattern's dimension, keeping the fill estimates it holds.
SymbolicBegin(p) ==
  /\ pc = "idle"
  /\ reset_handle(NumRows(p), get_nnzL, get_nnzU)
  /\ op' = "reset_handle"
  /\ args' = <<NumRows(p), get_nnzL, get_nnzU>>
  /\ pre' = Pre
  /\ pc' = IF ret'.kind = "void" THEN "levels" ELSE "idle"
  /\ pat' = p
  /\ UNCHANGED <<last, util>>

PassStep(from, to, name) ==
  /\ pc = from
  /\ pc' = to
  /\ op' = name
  /\ args' = <<>>
  /\ pre' = Pre
  /\ ret' = Void
  /\ UNCHANGED <<pat, last, util>>

LevelAssign ==
  /\ PassStep("levels", "bucket", "level_assign")
  /\ level_list' = AssignLevels(level_list, pat, 0, get_nrows)
  /\ UNCHANGED <<level_idx, level_ptr, level_nchunks, level_nrowsperchunk, iw,
                 scalars, symbolic_complete, tuning>>

LevelBucket ==
  /\ PassStep("bucket", "record", "level_bucket")
  /\ LET n == get_nrows
         lp == PrefixSum(CountLevels(level_ptr, level_list, 0, n), 1, n)
     IN /\ level_ptr' = lp
        /\ level_idx' = Scatter(level_idx, lp, level_list, 0, n)
  /\ UNCHANGED <<level_list, level_nchunks, level_nrowsperchunk, iw,
                 scalars, symbolic_complete, tuning>>

LevelRecord ==
  /\ PassStep("record", "chunk", "level_record")
  /\ LET nl == NumLevels(level_list, get_nrows)
     IN /\ set_num_levels(nl)
        /\ set_level_maxrows(
             IF nl = 0 THEN 0
             ELSE Max({LevelSize(level_ptr, k) : k \in 0 .. nl - 1}))
  /\ UNCHANGED <<arrays, iw, nrows, nnzL, nnzU, level_maxrowsperchunk,
                 symbolic_complete, tuning>>

\* Chunking of the TP1 policy with tuned chunk size c: a level of s rows is
\* cut into ceil(s / c) chunks of at most min(c, s) rows.
RowsPerChunk(s, c) == Min2(c, s)
NumChunks(s, c) == (s + c - 1) \div c

LevelChunk(c) ==
  /\ PassStep("chunk", "finish", "level_chunk")
  /\ IF algm = "SEQLVLSCHD_TP1"
       THEN /\ level_nchunks' =
                 [k \in DOMAIN AllocView(nlevels) |->
                    NumChunks(LevelSize(level_ptr, k - 1), c)]
            /\ level_nrowsperchunk' =
                 [k \in DOMAIN AllocView(nlevels) |->
                    RowsPerChunk(LevelSize(level_ptr, k - 1), c)]
            /\ set_level_maxrowsperchunk(
                 IF nlevels = 0 THEN 0
                 ELSE Max({RowsPerChunk(LevelSize(level_ptr, k), c) :
                           k \in 0 .. nlevels - 1}))
       ELSE UNCHANGED <<level_nchunks, level_nrowsperchunk, level_maxrowsperchunk>>
  /\ UNCHANGED <<level_list, level_idx, level_ptr, iw, nrows, nlevels, nnzL,
                 nnzU, level_maxrows, symbolic_complete, tuning>>

SymbolicFinish ==
  /\ PassStep("finish", "idle", "symbolic")
  /\ set_symbolic_complete
  /\ UNCHANGED <<arrays, iw, scalars, tuning>>

\* The caller keeps a copy of the schedule of the pass that just completed.
Schedule ==
  [done |-> TRUE, pat |-> pat, level_list |-> level_list,
   level_ptr |-> level_ptr, level_idx |-> level_idx]

KeepSchedule ==
  /\ pc = "idle"
  /\ op = "symbolic"
  /\ last' = Schedule
  /\ op' = "keep_schedule"
  /\ args' = <<>>
  /\ pre' = Pre
  /\ ret' = Void
  /\ UNCHANGED <<handle, pc, pat, util>>

\* The 5 x 5 pattern of the end-to-end scenario: rows 2 and 4 hold every
\* earlier column, rows 0, 1 and 3 only their diagonal.
ScenarioPattern ==
  AppendRow(AppendRow(AppendRow(AppendRow(AppendRow(
    EmptyPattern, {}, 0), {}, 1), {0, 1}, 2), {}, 3), {0, 1, 2, 3}, 4)

\* ---------------------------------------------------------- specifications
\* The handle's interface, called in any order.
Next ==
  \/ \E n \in DimInputs, l \in NnzInputs, u \in NnzInputs : ResetHandle(n, l, u)
  \/ SetSymbolicComplete
  \/ ResetSymbolicComplete
  \/ GetLevelList
  \/ GetLevelIdx
  \/ GetLevelPtr
  \/ GetLevelNchunks
  \/ GetLevelNrowsperchunk
  \/ GetIw
  \/ \E n \in ChunkLens : AllocLevelNchunks(n)
  \/ \E n \in ChunkLens : AllocLevelNrowsperchunk(n)
  \/ \E r \in IwDims, c \in IwDims : AllocIw(r, c)
  \/ \E r \in IwDims, c \in IwDims : IwWrite(r, c)
  \/ \E name \in AlgorithmNames : StringToAlgorithm(name)

Spec == Init /\ [][Next]_vars

\* ------------------------------------------------- scalar setters called
\* A size_type setter takes the caller's value converted to size_type.
SetNrows(v) ==
  /\ Call("set_nrows", <<v>>)
  /\ set_nrows(ToSizeType(v))
  /\ ret' = Void
  /\ UNCHANGED <<arrays, iw, nlevels, nnzL, nnzU, level_maxrows,
                 level_maxrowsperchunk, symbolic_complete, tuning>>

SetNnzL(v) ==
  /\ Call("set_nnzL", <<v>>)
  /\ set_nnzL(ToSizeType(v))
  /\ ret' = Void
  /\ UNCHANGED <<arrays, iw, nrows, nlevels, nnzU, level_maxrows,
                 level_maxrowsperchunk, symbolic_complete, tuning>>

SetNnzU(v) ==
  /\ Call("set_nnzU", <<v>>)
  /\ set_nnzU(ToSizeType(v))
  /\ ret' = Void
  /\ UNCHANGED <<arrays, iw, nrows, nlevels, nnzL, level_maxrows,
                 level_maxrowsperchunk, symbolic_complete, tuning>>

SetNumLevels(v) ==
  /\ Call("set_num_levels", <<v>>)
  /\ set_num_levels(ToSizeType(v))
  /\ ret' = Void
  /\ UNCHANGED <<arrays, iw, nrows, nnzL, nnzU, level_maxrows,
                 level_maxrowsperchunk, symbolic_complete, tuning>>

SetLevelMaxrows(v) ==
  /\ Call("set_level_maxrows", <<v>>)
  /\ set_level_maxrows(ToSizeType(v))
  /\ ret' = Void
  /\ UNCHANGED <<arrays, iw, nrows, nlevels, nnzL, nnzU,
                 level_maxrowsperchunk, symbolic_complete, tuning>>

SetLevelMaxrowsperchunk(v) ==
  /\ Call("set_level_maxrowsperchunk", <<v>>)
  /\ set_level_maxrowsperchunk(ToSizeType(v))
  /\ ret' = Void
  /\ UNCHANGED <<arrays, iw, nrows, nlevels, nnzL, nnzU, level_maxrows,
                 symbolic_complete, tuning>>

SetTeamSize(ts) ==
  /\ Call("set_team_size", <<ts>>)
  /\ set_team_size(ts)
  /\ ret' = Void
  /\ UNCHANGED <<arrays, iw, scalars, symbolic_complete, algm, vector_size>>

SetVectorSize(vs) ==
  /\ Call("set_vector_size", <<vs>>)
  /\ set_vector_size(vs)
  /\ ret' = Void
  /\ UNCHANGED <<arrays, iw, scalars, symbolic_complete, algm, team_size>>

SetAlgorithm(choice) ==
  /\ Call("set_algorithm", <<choice>>)
  /\ set_algorithm(choice)
  /\ ret' = Void
  /\ UNCHANGED <<arrays, iw, scalars, symbolic_complete, team_size, vector_size>>

\* Values the setters are called with: size_type ones (a negative one
\* wraps around) and int ones.
SizeInputs == {0, -1}
IntInputs == {-1, 4}

SetterNext ==
  \/ \E n \in SizeInputs, l \in SizeInputs, u \in SizeInputs : ResetHandle(n, l, u)
  \/ \E v \in SizeInputs : SetNrows(v)
  \/ \E v \in SizeInputs : SetNnzL(v)
  \/ \E v \in SizeInputs : SetNnzU(v)
  \/ \E v \in SizeInputs : SetNumLevels(v)
  \/ \E v \in SizeInputs : SetLevelMaxrows(v)
  \/ \E v \in SizeInputs : SetLevelMaxrowsperchunk(v)
  \/ \E ts \in IntInputs : SetTeamSize(ts)
  \/ \E vs \in IntInputs : SetVectorSize(vs)
  \/ \E choice \in Algorithms : SetAlgorithm(choice)
  \/ SetSymbolicComplete
  \/ ResetSymbolicComplete

SetterInit == Constructed(Algorithms, {0}, {0}, BOOLEAN)

SetterSpec == SetterInit /\ [][SetterNext]_vars

\* The handle driven by symbolic passes, resets and scratch use in between.
SymbolicNext ==
  \/ \E n \in DimInputs, l \in NnzInputs, u \in NnzInputs : ResetHandle(n, l, u)
  \/ \E n \in 0 .. MaxRows : \E p \in LowerPatterns(n) : SymbolicBegin(p)
  \/ \E n \in 0 .. MaxRows :
       SymbolicBegin(PatternOf(kk_generate_diag_matrix(n, FALSE)))
  \/ \E n \in 0 .. MaxRows :
       SymbolicBegin(PatternOf(kk_sparseMatrix_generate_lower_upper_triangle("L", n, n)))
  \/ LevelAssign
  \/ LevelBucket
  \/ LevelRecord
  \/ \E c \in 1 .. MaxChunk : LevelChunk(c)
  \/ SymbolicFinish
  \/ \E r \in IwDims, c \in IwDims : AllocIw(r, c)
  \/ \E r \in IwDims, c \in IwDims : IwWrite(r, c)

SymbolicSpec == Init /\ [][SymbolicNext]_vars

\* ----------------------------------------------------------- free functions
\* A call of a free function records its name, its inputs and its outcome;
\* it touches no handle.
Invoke(fn, in, out) ==
  /\ call' = [fn |-> fn, in |-> in, out |-> out]
  /\ UNCHANGED <<handle, op, args, ret, pre, pass, gen>>

\* A function without state is applied once to inputs drawn from its domain.
Apply(fn, in, out) ==
  /\ call = NoCall
  /\ Invoke(fn, in, out)
  /\ UNCHANGED file

\* Shapes handed to the triangular generator, square and not.
GenerateTriangle ==
  \E uplo \in {"L", "U"}, nrows_ \in 0 .. MaxRows, ncols_ \in 0 .. MaxRows :
    Apply("kk_sparseMatrix_generate_lower_upper_triangle",
          <<uplo, nrows_, ncols_>>,
          kk_sparseMatrix_generate_lower_upper_triangle(uplo, nrows_, ncols_))

GenerateDiag ==
  \E n \in 0 .. MaxRows, invert \in BOOLEAN :
    Apply("kk_generate_diag_matrix", <<n, invert>>,
          kk_generate_diag_matrix(n, invert))

\* ------------------------------------- vendor-library availability lookup
\* (src/src/impl/tpls/KokkosSparse_spmv_bsrmatrix_tpl_spec_avail.hpp)
\* A type is the sequence of its tokens, a device the pair of its execution
\* and memory space, memory traits the set of their flags.  A lookup key
\* holds the thirteen template arguments, and for the multivector trait the
\* fourteenth, integerScalarType ("default" when the caller leaves it out).
Const(t) == <<"const">> \o t
Pointer(t) == t \o <<"*">>
Device(exec, mem) == <<exec, mem>>
Unmanaged == {"Unmanaged"}
UnmanagedRandomAccess == {"Unmanaged", "RandomAccess"}

FloatT == <<"float">>
DoubleT == <<"double">>
ComplexFloat == <<"Kokkos::complex<float>">>
ComplexDouble == <<"Kokkos::complex<double>">>
IntT == <<"int">>
SizeT == <<"size_t">>
FloatingScalars == {FloatT, DoubleT, ComplexFloat, ComplexDouble}
Layouts == {"LayoutLeft", "LayoutRight"}
CudaMemSpaces == {"CudaSpace", "CudaUVMSpace"}

\* std::is_integral<std::decay<AT>::type>: cv-qualifiers are dropped first.
is_integral(t) == SelectSeq(t, LAMBDA tok : tok # "const") \in {IntT, SizeT}

\* What the build defines.
Builds ==
  [cusparse : BOOLEAN, cuda9 : BOOLEAN, mkl : BOOLEAN, serial : BOOLEAN,
   openmp : BOOLEAN]

KOKKOSSPARSE_SPMV_BSRMATRIX_TPL_SPEC_AVAIL_CUSPARSE_anyoffset(SCALAR, ORDINAL, OFFSET, XL_, YL_, MEMSPACE) ==
  [AT |-> Const(SCALAR), AO |-> Const(ORDINAL),
   AD |-> Device("Cuda", MEMSPACE), AM |-> Unmanaged, AS |-> Const(SizeT),
   XT |-> Pointer(Const(SCALAR)), XL |-> XL_,
   XD |-> Device("Cuda", MEMSPACE), XM |-> UnmanagedRandomAccess,
   YT |-> Pointer(SCALAR), YL |-> YL_,
   YD |-> Device("Cuda", MEMSPACE), YM |-> Unmanaged,
   integerScalarType |-> "default"]

KOKKOSSPARSE_SPMV_BSRMATRIX_TPL_SPEC_AVAIL_CUSPARSE(SCALAR, ORDINAL, OFFSET, XL_, YL_, MEMSPACE) ==
  [AT |-> Const(SCALAR), AO |-> Const(ORDINAL),
   AD |-> Device("Cuda", MEMSPACE), AM |-> Unmanaged, AS |-> Const(OFFSET),
   XT |-> Pointer(Const(SCALAR)), XL |-> XL_,
   XD |-> Device("Cuda", MEMSPACE), XM |-> UnmanagedRandomAccess,
   YT |-> Pointer(SCALAR), YL |-> YL_,
   YD |-> Device("Cuda", MEMSPACE), YM |-> Unmanaged,
   integerScalarType |-> "default"]

KOKKOSSPARSE_SPMV_BSRMATRIX_TPL_SPEC_AVAIL_MKL(SCALAR, EXECSPACE) ==
  [AT |-> Const(SCALAR), AO |-> Const(IntT),
   AD |-> Device(EXECSPACE, "HostSpace"), AM |-> Unmanaged, AS |-> Const(IntT),
   XT |-> Pointer(Const(SCALAR)), XL |-> "LayoutLeft",
   XD |-> Device(EXECSPACE, "HostSpace"), XM |-> UnmanagedRandomAccess,
   YT |-> Pointer(SCALAR), YL |-> "LayoutLeft",
   YD |-> Device(EXECSPACE, "HostSpace"), YM |-> Unmanaged,
   integerScalarType |-> "default"]

KOKKOSSPARSE_SPMV_MV_BSRMATRIX_TPL_SPEC_AVAIL_CUSPARSE(SCALAR, ORDINAL, OFFSET, LAYOUT, MEMSPACE) ==
  [AT |-> Const(SCALAR), AO |-> Const(ORDINAL),
   AD |-> Device("Cuda", MEMSPACE), AM |-> Unmanaged, AS |-> Const(OFFSET),
   XT |-> Pointer(Pointer(Const(SCALAR))), XL |-> LAYOUT,
   XD |-> Device("Cuda", MEMSPACE), XM |-> UnmanagedRandomAccess,
   YT |-> Pointer(Pointer(SCALAR)), YL |-> LAYOUT,
   YD |-> Device("Cuda", MEMSPACE), YM |-> Unmanaged,
   integerScalarType |-> "false"]

KOKKOSSPARSE_SPMV_MV_BSRMATRIX_TPL_SPEC_AVAIL_MKL(SCALAR, EXECSPACE) ==
  [AT |-> Const(SCALAR), AO |-> Const(IntT),
   AD |-> Device(EXECSPACE, "HostSpace"), AM |-> Unmanaged, AS |-> Const(IntT),
   XT |-> Pointer(Const(SCALAR)), XL |-> "LayoutLeft",
   XD |-> Device(EXECSPACE, "HostSpace"), XM |-> UnmanagedRandomAccess,
   YT |-> Pointer(SCALAR), YL |-> "LayoutLeft",
   YD |-> Device(EXECSPACE, "HostSpace"), YM |-> Unmanaged,
   integerScalarType |-> "true"]

\* The explicit specializations the preprocessor leaves in for a build.
BsrSpecializations(b) ==
  (IF b.cusparse /\ b.cuda9
     THEN {KOKKOSSPARSE_SPMV_BSRMATRIX_TPL_SPEC_AVAIL_CUSPARSE(sc, IntT, IntT, l, l, m) :
             sc \in FloatingScalars, l \in Layouts, m \in CudaMemSpaces}
     ELSE {})
  \cup (IF b.mkl /\ b.serial
     THEN {KOKKOSSPARSE_SPMV_BSRMATRIX_TPL_SPEC_AVAIL_MKL(sc, "Serial") :
             sc \in FloatingScalars}
     ELSE {})
  \cup (IF b.mkl /\ b.openmp
     THEN {KOKKOSSPARSE_SPMV_BSRMATRIX_TPL_SPEC_AVAIL_MKL(sc, "OpenMP") :
             sc \in FloatingScalars}
     ELSE {})

MvBsrSpecializations(b) ==
  (IF b.cusparse /\ b.cuda9
     THEN {KOKKOSSPARSE_SPMV_MV_BSRMATRIX_TPL_SPEC_AVAIL_CUSPARSE(sc, IntT, IntT, "LayoutLeft", m) :
             sc \in FloatingScalars, m \in CudaMemSpaces}
     ELSE {})
  \cup (IF b.mkl /\ b.serial
     THEN {KOKKOSSPARSE_SPMV_MV_BSRMATRIX_TPL_SPEC_AVAIL_MKL(sc, "Serial") :
             sc \in FloatingScalars}
     ELSE {})
  \cup (IF b.mkl /\ b.openmp
     THEN {KOKKOSSPARSE_SPMV_MV_BSRMATRIX_TPL_SPEC_AVAIL_MKL(sc, "OpenMP") :
             sc \in FloatingScalars}
     ELSE {})

\* The thirteen type arguments of a key or of a specialization.
TypeArgs(k) == [k EXCEPT !.integerScalarType = "default"]

\* ::value of the primary template unless an explicit specialization has
\* exactly the key's arguments.
spmv_bsrmatrix_tpl_spec_avail(k, b) ==
  \E sp \in BsrSpecializations(b) : TypeArgs(sp) = TypeArgs(k)

\* The fourteenth argument defaults to is_integral of the decayed AT.
IntegerScalarType(k) ==
  IF k.integerScalarType = "default"
    THEN (IF is_integral(k.AT) THEN "true" ELSE "false")
    ELSE k.integerScalarType

spmv_mv_bsrmatrix_tpl_spec_avail(k, b) ==
  \E sp \in MvBsrSpecializations(b) :
    /\ TypeArgs(sp) = TypeArgs(k)
    /\ sp.integerScalarType = IntegerScalarType(k)

\* Keys looked up: every specialization of the fullest build and every key
\* that differs from one in a single argument.
AllEnabled ==
  [cusparse |-> TRUE, cuda9 |-> TRUE, mkl |-> TRUE, serial |-> TRUE,
   openmp |-> TRUE]

Variants(k) ==
  {k}
  \cup {[k EXCEPT !.AT = Const(IntT)], [k EXCEPT !.AT = FloatT]}
  \cup {[k EXCEPT !.AO = Const(SizeT)], [k EXCEPT !.AO = IntT]}
  \cup {[k EXCEPT !.AS = Const(SizeT)], [k EXCEPT !.AS = Const(IntT)]}
  \cup {[k EXCEPT !.AD = Device("Cuda", "CudaSpace")],
        [k EXCEPT !.AD = Device("OpenMP", "HostSpace")]}
  \cup {[k EXCEPT !.AM = UnmanagedRandomAccess]}
  \cup {[k EXCEPT !.XT = Pointer(Const(DoubleT))],
        [k EXCEPT !.XT = Pointer(Pointer(Const(DoubleT)))]}
  \cup {[k EXCEPT !.XL = l] : l \in Layouts}
  \cup {[k EXCEPT !.XD = Device("Serial", "HostSpace")]}
  \cup {[k EXCEPT !.XM = Unmanaged]}
  \cup {[k EXCEPT !.YT = Pointer(DoubleT)]}
  \cup {[k EXCEPT !.YL = l] : l \in Layouts}
  \cup {[k EXCEPT !.YD = Device("Cuda", "CudaUVMSpace")]}
  \cup {[k EXCEPT !.YM = UnmanagedRandomAccess]}

BsrKeys == UNION {Variants(sp) : sp \in BsrSpecializations(AllEnabled)}

MvBsrKeys ==
  UNION {Variants(TypeArgs(sp)) \cup {[TypeArgs(sp) EXCEPT !.integerScalarType = f] :
                                       f \in {"true", "false"}} :
         sp \in MvBsrSpecializations(AllEnabled)}

SpmvBsrAvail ==
  \E k \in BsrKeys, b \in Builds :
    Apply("spmv_bsrmatrix_tpl_spec_avail", <<k, b>>,
          spmv_bsrmatrix_tpl_spec_avail(k, b))

SpmvMvBsrAvail ==
  \E k \in MvBsrKeys, b \in Builds :
    Apply("spmv_mv_bsrmatrix_tpl_spec_avail", <<k, b>>,
          spmv_mv_bsrmatrix_tpl_spec_avail(k, b))

\* ---------------------------------------------------------------- iamax
\* (src/src/blas/impl/KokkosBlas1_iamax_impl.hpp)  A vector is a sequence of
\* small integers; the state of a reduction is [loc, acc]: the 1-based
\* index held and the set of 0-based positions of m_x read so far.
XValues == {-2, -1, 0, 1, 2}
Vectors == UNION {[1 .. n -> XValues] : n \in 0 .. MaxLen}

\* IPT::norm of a real number, and of an element of m_x; a position outside
\* the view has no element, the comparison then sees magnitude 0.
Norm(v) == IF v < 0 THEN -v ELSE v
NormAt(X, i) == IF i \in 0 .. Len(X) - 1 THEN Norm(At(X, i)) ELSE 0

\* Kokkos::reduction_identity<value_type>::max() of the unsigned index type.
ReductionIdentityMax == 0

\* V_Iamax_Functor::init
FunctorInit_noplus == ReductionIdentityMax

FunctorInit == ReductionIdentityMax + 1

\* V_Iamax_Functor::operator()(i, lmaxloc)
FunctorOp(X, i, st) ==
  [loc |-> IF NormAt(X, i - 1) > NormAt(X, st.loc - 1) THEN i ELSE st.loc,
   acc |-> st.acc \cup {i - 1, st.loc - 1}]

\* V_Iamax_Functor::join(update, source)
FunctorJoin(X, update, source) ==
  [loc |-> IF NormAt(X, update.loc - 1) < NormAt(X, source.loc - 1)
             THEN source.loc ELSE update.loc,
   acc |-> update.acc \cup source.acc \cup {source.loc - 1, update.loc - 1}]

\* One thread's share of the range: operator() on lo .. hi in order,
\* starting from init.
RECURSIVE ChunkReduce(_, _, _, _)
ChunkReduce(X, st, i, hi) ==
  IF i > hi THEN st ELSE ChunkReduce(X, FunctorOp(X, i, st), i + 1, hi)

\* The range 1 .. n cut after the positions in cuts.
RECURSIVE ChunksOf(_, _, _)
ChunksOf(lo, n, cuts) ==
  IF lo > n THEN <<>>
  ELSE LET hi == IF \E c \in cuts : c >= lo
                   THEN CHOOSE c \in cuts : c >= lo /\ \A d \in cuts : d >= lo => c <= d
                   ELSE n
       IN <<<<lo, hi>>>> \o ChunksOf(hi + 1, n, cuts)

RECURSIVE JoinAll(_, _, _, _, _)
JoinAll(X, parts, order, st, k) ==
  IF k > Len(parts) THEN st
  ELSE JoinAll(X, parts, order, FunctorJoin(X, st, parts[order[k]]), k + 1)

\* The orders in which m partial results can be joined.
Orders(m) ==
  {o \in [1 .. m -> 1 .. m] : \A a \in 1 .. m, b \in 1 .. m : a # b => o[a] # o[b]}

\* Kokkos::parallel_reduce over RangePolicy(1, numRows + 1): the range is
\* cut into contiguous chunks, each reduced on its own starting from init,
\* and the partial results are joined in some order.
ParallelReduce(X) ==
  LET n == Len(X)
      start == [loc |-> FunctorInit, acc |-> {}]
      Parts(cuts) ==
        LET chunks == ChunksOf(1, n, cuts)
        IN [c \in 1 .. Len(chunks) |->
              ChunkReduce(X, start, chunks[c][1], chunks[c][2])]
  IN UNION {{JoinAll(X, Parts(cuts), order, Parts(cuts)[order[1]], 2) :
               order \in Orders(Cardinality(cuts) + 1)} :
            cuts \in SUBSET (1 .. n - 1)}

\* V_Iamax_Invoke: the outcomes [r, acc, reduced] it can leave.
V_Iamax_Invoke(X) ==
  IF Len(X) = 0
    THEN {[r |-> 0, acc |-> {}, reduced |-> FALSE]}
    ELSE {[r |-> st.loc, acc |-> st.acc, reduced |-> TRUE] : st \in ParallelReduce(X)}

Iamax ==
  \E X \in Vectors : \E out \in V_Iamax_Invoke(X) :
    Apply("V_Iamax_Invoke", X, out)


UtilInit == Constructed({"SEQLVLSCHD_RP"}, {0}, {0}, {FALSE})

KernelNext ==
  \/ GenerateTriangle
  \/ GenerateDiag
  \/ SpmvBsrAvail
  \/ SpmvMvBsrAvail
  \/ Iamax

KernelSpec == UtilInit /\ [][KernelNext]_vars

\* ------------------------------------------------ random matrix generators
\* kk_sparseMatrix_generate and kk_diagonally_dominant_sparseMatrix_generate
\* run step by step: gen holds the arguments, the position (pc, row) and the
\* arrays written so far; colInd is written in index order, so the next
\* index k is its length.  A call of rand() is a choice among the values the
\* expression it feeds can take.
Random == "kk_sparseMatrix_generate"
Dominant == "kk_diagonally_dominant_sparseMatrix_generate"

\* (int)(n / 2.0): the conversion drops the fraction.
TruncHalf(n) == IF n >= 0 THEN n \div 2 ELSE -((-n) \div 2)

\* (1.0 * rand() / RAND_MAX - 0.5) * width + centre, converted to an integer.
Draws(centre, width) ==
  IF width >= 0
    THEN TruncHalf(2 * centre - width) .. TruncHalf(2 * centre + width)
    ELSE TruncHalf(2 * centre + width) .. TruncHalf(2 * centre - width)

\* if (numRowEntries < 0) .. = 0; if (numRowEntries > 0.66 * ncols) .. = 0.66 * ncols
ClampRowEntries_below(numRowEntries, ncols_) ==
  IF numRowEntries < 0 THEN 0 ELSE numRowEntries

ClampRowEntries(numRowEntries, ncols_) ==
  LET n == IF numRowEntries < 0 THEN 0 ELSE numRowEntries
  IN IF 100 * n > 66 * ncols_ THEN (66 * ncols_) \div 100 ELSE n

\* if (varianz < 1) .. = 1; if (varianz > 0.75 * ncols) .. = 0.75 * ncols
ClampVarianz(varianz, ncols_) ==
  LET v == IF varianz < 1 THEN 1 ELSE varianz
  IN IF 100 * v > 75 * ncols_ THEN (75 * ncols_) \div 100 ELSE v

\* rowPtr[row + 1] of the diagonally dominant generator.
DominantRowEnd(start, elements_per_row, varianz) ==
  IF start + elements_per_row + varianz <= start THEN start + 1
  ELSE start + elements_per_row + varianz

\* The columns one draw of pos can end on: the two while loops wrap it into
\* [0, ncols) and never end when ncols is not positive.
Positions(row, bandwidth, ncols_) ==
  IF ncols_ > 0 THEN {p % ncols_ : p \in Draws(row, bandwidth)} ELSE {}

\* The columns of the current row already decided: colInd[rowPtr[row] .. k)
\* and, for the diagonally dominant generator, the diagonal put into
\* entriesInRow beforehand.
InRow(g) ==
  {g.colInd[j] : j \in g.rowPtr[g.row + 1] + 1 .. Len(g.colInd)}
  \cup (IF g.fn = Dominant THEN {g.row} ELSE {})

\* One past the last index the sampling loop of the current row fills.
SampleEnd(g) ==
  IF g.fn = Dominant THEN g.rowPtr[g.row + 2] - 1 ELSE g.rowPtr[g.row + 2]

GenRows == 0 .. MaxNv
GenCols == 0 .. MaxCols
GenNnz == 0 .. MaxCols
Variances == {0, 2}
Bandwidths == {0, 1, 2 * MaxCols}

\* The call: rowPtr = new SizeType[nrows + 1], elements_per_row, rowPtr[0] = 0.
\* The diagonally dominant generator divides by nrows unguarded.
GenBegin ==
  \E fn \in {Random, Dominant}, nrows_ \in GenRows, ncols_ \in GenCols,
     nnz_ \in GenNnz, row_size_variance \in Variances, bandwidth \in Bandwidths :
    /\ gen = NoGen
    /\ gen' = [fn |-> fn, nrows |-> nrows_, ncols |-> ncols_, nnz |-> nnz_,
               row_size_variance |-> row_size_variance, bandwidth |-> bandwidth,
               pc |-> IF fn = Dominant /\ nrows_ = 0 THEN "undefined" ELSE "rows",
               elements_per_row |-> IF nrows_ = 0 THEN 0 ELSE nnz_ \div nrows_,
               row |-> 0, rowPtr |-> <<0>>, colInd |-> <<>>]
    /\ UNCHANGED <<handle, op, args, ret, pre, pass, call, file>>

\* One round of the first loop: the size of row `row`.
GenRowSize ==
  /\ gen.pc = "rows" /\ gen.row < gen.nrows
  /\ \E varianz \in Draws(0, gen.row_size_variance) :
       LET start == gen.rowPtr[gen.row + 1]
           end == IF gen.fn = Random
                    THEN start + ClampRowEntries(gen.elements_per_row + varianz,
                                                 gen.ncols)
                    ELSE DominantRowEnd(start, gen.elements_per_row,
                                        ClampVarianz(varianz, gen.ncols))
       IN gen' = [gen EXCEPT !.rowPtr = Append(@, end), !.row = @ + 1]
  /\ UNCHANGED <<handle, op, args, ret, pre, pass, call, file>>

\* nnz = rowPtr[nrows]; values and colInd are allocated.
GenAllocate ==
  /\ gen.pc = "rows" /\ gen.row = gen.nrows
  /\ gen' = [gen EXCEPT !.pc = "fill", !.row = 0, !.nnz = gen.rowPtr[gen.nrows + 1]]
  /\ UNCHANGED <<handle, op, args, ret, pre, pass, call, file>>

\* One round of while (true): a position is drawn and kept unless the row
\* has it already.
GenSample ==
  /\ gen.pc = "fill" /\ gen.row < gen.nrows /\ Len(gen.colInd) < SampleEnd(gen)
  /\ \E pos \in Positions(gen.row, gen.bandwidth, gen.ncols) :
       gen' = IF pos \in InRow(gen) THEN gen
              ELSE [gen EXCEPT !.colInd = Append(@, pos)]
  /\ UNCHANGED <<handle, op, args, ret, pre, pass, call, file>>

\* The row is full: the diagonally dominant generator puts the diagonal
\* last, colInd[rowPtr[row + 1] - 1] = row.
GenNextRow ==
  /\ gen.pc = "fill" /\ gen.row < gen.nrows /\ Len(gen.colInd) = SampleEnd(gen)
  /\ gen' = [gen EXCEPT !.row = @ + 1,
                        !.colInd = IF gen.fn = Dominant THEN Append(@, gen.row)
                                   ELSE @]
  /\ UNCHANGED <<handle, op, args, ret, pre, pass, call, file>>

GenReturn ==
  /\ gen.pc = "fill" /\ gen.row = gen.nrows
  /\ gen' = [gen EXCEPT !.pc = "done"]
  /\ UNCHANGED <<handle, op, args, ret, pre, pass, call, file>>

GenNext ==
  \/ GenBegin
  \/ GenRowSize
  \/ GenAllocate
  \/ GenSample
  \/ GenNextRow
  \/ GenReturn

GenSpec == UtilInit /\ [][GenNext]_vars

\* ------------------------------------------------------- graph and matrix I/O
\* (src/src/sparse/KokkosSparse_IOUtils.hpp)  The file is
\* [name, format, data]; a name is the sequence of its characters.  Each
\* behaviour creates one file and reads it once.
Readers == {"read_graph_bin", "read_graph_crs", "read_mtx", "read_matrix"}
Unread == call.fn \notin Readers

BinName == <<"g", ".", "b", "i", "n">>
BareName == <<"g">>

\* Raw memory of a fixed-width integer: its bytes, least significant first,
\* two's complement for a negative value.
ByteMod == 256
LnoBytes == 2
SizeBytes == 2
ScalarBytes == 2

RECURSIVE Power(_, _)
Power(b, e) == IF e = 0 THEN 1 ELSE b * Power(b, e - 1)

Encode_lowbyte(v, w) == [i \in 1 .. w |-> IF i = 1 THEN v % ByteMod ELSE 0]

Encode(v, w) ==
  [i \in 1 .. w |-> ((v % Power(ByteMod, w)) \div Power(ByteMod, i - 1)) % ByteMod]

RECURSIVE DecodeUnsigned(_)
DecodeUnsigned(bytes) ==
  IF bytes = <<>> THEN 0 ELSE Head(bytes) + ByteMod * DecodeUnsigned(Tail(bytes))

DecodeSigned(bytes) ==
  LET u == DecodeUnsigned(bytes)
      m == Power(ByteMod, Len(bytes))
  IN IF 2 * u >= m THEN u - m ELSE u

\* myFile.write((char *)a, width * n): the first n entries of a.
RECURSIVE EncodeArray(_, _, _)
EncodeArray(a, n, w) ==
  IF n <= 0 THEN <<>> ELSE EncodeArray(a, n - 1, w) \o Encode(a[n], w)

\* myFile.read((char *)a, width * n) at byte offset off.
DecodeArray(bytes, off, n, w, signed) ==
  [i \in 1 .. n |->
     LET field == SubSeq(bytes, off + (i - 1) * w + 1, off + i * w)
     IN IF signed THEN DecodeSigned(field) ELSE DecodeUnsigned(field)]

\* Graphs handed to the writers: any arrays of the stated lengths, the
\* values chosen so that one needs a second byte and one is negative.
OffsetValues == {0, 1}
IndexValues == {0, 300}
ScalarValues == {-1, 2}

Graphs ==
  UNION {[nv : {v}, ne : {e}, xadj : [1 .. v + 1 -> OffsetValues],
          adj : [1 .. e -> IndexValues], ew : [1 .. e -> ScalarValues]] :
         v \in 0 .. MaxNv, e \in 0 .. MaxNe}

write_graph_bin(nv, ne, xadj, adj, ew) ==
  Encode(nv, LnoBytes) \o Encode(ne, SizeBytes)
    \o EncodeArray(xadj, nv + 1, SizeBytes)
    \o EncodeArray(adj, ne, LnoBytes)
    \o EncodeArray(ew, ne, ScalarBytes)

\* read_graph_bin on the bytes of a file: a read past the end of the file
\* reads nothing and leaves the destination as md_malloc returned it.
read_graph_bin(bytes) ==
  LET nv == DecodeSigned(SubSeq(bytes, 1, LnoBytes))
      ne == DecodeUnsigned(SubSeq(bytes, LnoBytes + 1, LnoBytes + SizeBytes))
      o1 == LnoBytes + SizeBytes
      o2 == o1 + (nv + 1) * SizeBytes
      o3 == o2 + ne * LnoBytes
      o4 == o3 + ne * ScalarBytes
  IN IF Len(bytes) < o1 \/ nv < 0 \/ Len(bytes) < o4
       THEN [kind |-> "garbage"]
       ELSE [kind |-> "ok", nv |-> nv, ne |-> ne,
             xadj |-> DecodeArray(bytes, o1, nv + 1, SizeBytes, FALSE),
             adj |-> DecodeArray(bytes, o2, ne, LnoBytes, TRUE),
             ew |-> DecodeArray(bytes, o3, ne, ScalarBytes, TRUE)]

WriteGraphBin ==
  \E g \in Graphs, name \in {BinName, BareName} :
    /\ file = NoFile
    /\ file' = [name |-> name, format |-> "bin",
                data |-> write_graph_bin(g.nv, g.ne, g.xadj, g.adj, g.ew)]
    /\ Invoke("write_graph_bin", <<g, name>>, [kind |-> "ok"])

ReadGraphBin ==
  \E name \in {BinName, BareName} :
    /\ file.format = "bin"
    /\ Unread
    /\ Invoke("read_graph_bin", <<name>>,
              IF name = file.name THEN read_graph_bin(file.data)
              ELSE [kind |-> "garbage"])
    /\ UNCHANGED file

\* ----------------------------------------------------------- MatrixMarket
\* The data of a MatrixMarket file: the banner that opens its first line,
\* the other words of that line, the size line and the data lines.  A data
\* line is [s, d, w]: array format reads only w, field pattern only s and d;
\* a scalar is <<real part, imaginary part>>.
MmName == <<"a", ".", "m", "m">>
MtxName == <<"a", ".", "m", "t", "x">>

\* fline.find(keyword) on the first line.
Contains(word, keyword) ==
  \/ word = keyword
  \/ word = "skew-symmetric" /\ keyword = "symmetric"

Find(line, keyword) ==
  \E word \in line.words \cup {line.banner} : Contains(word, keyword)

\* fline.size() >= 2 and the line opens with "%%".
OpensWithPercents(banner) == banner \in {"%%MatrixMarket", "%%"}

is_floating_point(t) == t \in {FloatT, DoubleT}
is_complex(t) == t \in {ComplexFloat, ComplexDouble}
HalfT == <<"Kokkos::Experimental::half_t">>
is_half(t) == t = HalfT

MtxObject(line) ==
  IF Find(line, "matrix") THEN "MATRIX"
  ELSE IF Find(line, "vector") THEN "VECTOR"
  ELSE "UNDEFINED_OBJECT"

MtxFormat(line) ==
  IF Find(line, "coordinate") THEN "COORDINATE"
  ELSE IF Find(line, "array") THEN "ARRAY"
  ELSE "UNDEFINED_FORMAT"

\* The field type, or the error of a scalar_t that cannot hold it.
MtxField(line, scalar_t) ==
  IF Find(line, "real") \/ Find(line, "double")
    THEN (IF is_half(scalar_t) \/ is_floating_point(scalar_t) THEN "REAL"
          ELSE "scalar_t incompatible with float or double typed file")
  ELSE IF Find(line, "complex")
    THEN (IF is_complex(scalar_t) THEN "COMPLEX"
          ELSE "scalar_t incompatible with complex-typed file")
  ELSE IF Find(line, "integer")
    THEN (IF is_integral(scalar_t) \/ is_floating_point(scalar_t) \/ is_half(scalar_t)
            THEN "INTEGER"
          ELSE "scalar_t incompatible with integer-typed file")
  ELSE IF Find(line, "pattern") THEN "PATTERN"
  ELSE "UNDEFINED_FIELD"

FieldTypes == {"REAL", "COMPLEX", "INTEGER", "PATTERN", "UNDEFINED_FIELD"}

MtxSym_symmetricfirst(line) ==
  IF Find(line, "general") THEN "GENERAL"
  ELSE IF Find(line, "symmetric") THEN "SYMMETRIC"
  ELSE IF Find(line, "skew-symmetric") THEN "SKEW_SYMMETRIC"
  ELSE IF Find(line, "hermitian") \/ Find(line, "Hermitian") THEN "HERMITIAN"
  ELSE "UNDEFINED_SYMMETRY"

MtxSym(line) ==
  IF Find(line, "general") THEN "GENERAL"
  ELSE IF Find(line, "skew-symmetric") THEN "SKEW_SYMMETRIC"
  ELSE IF Find(line, "symmetric") THEN "SYMMETRIC"
  ELSE IF Find(line, "hermitian") \/ Find(line, "Hermitian") THEN "HERMITIAN"
  ELSE "UNDEFINED_SYMMETRY"

\* Array format may leave the symmetry out; it is general then.
DefaultedSym_always(format, sym) ==
  IF sym = "UNDEFINED_SYMMETRY" THEN "GENERAL" ELSE sym

DefaultedSym(format, sym) ==
  IF format = "ARRAY" /\ sym = "UNDEFINED_SYMMETRY" THEN "GENERAL" ELSE sym

\* The first error the checks up to the size line raise, "none" without one.
HeaderError(line, scalar_t) ==
  LET object == MtxObject(line)
      format == MtxFormat(line)
      field == MtxField(line, scalar_t)
      sym == DefaultedSym(format, MtxSym(line))
  IN IF ~OpensWithPercents(line.banner) THEN "Invalid MM file. Line-1"
     ELSE IF object = "VECTOR" THEN "vector is not supported"
     ELSE IF field \notin FieldTypes THEN field
     ELSE IF format = "ARRAY" /\ sym # "GENERAL"
       THEN "array format must have general symmetry"
     ELSE IF object = "UNDEFINED_OBJECT" THEN "header is missing the object type"
     ELSE IF format = "UNDEFINED_FORMAT" THEN "header is missing the format"
     ELSE IF field = "UNDEFINED_FIELD" THEN "header is missing the field type"
     ELSE IF sym = "UNDEFINED_SYMMETRY" THEN "header is missing the symmetry type"
     ELSE "none"

\* The errors raised once the size line is read.
SizeError(format, field, symmetrize, nr, nc) ==
  IF symmetrize /\ nr # nc THEN "A non-square matrix cannot be symmetrized."
  ELSE IF format = "ARRAY" /\ symmetrize THEN "array format cannot be symmetrized"
  ELSE IF format = "ARRAY" /\ field = "PATTERN"
    THEN "array format can't have pattern field type"
  ELSE "none"

\* MM::symmetryFlip
symmetryFlip(val, symFlag, scalar_t) ==
  IF is_complex(scalar_t) /\ symFlag = "HERMITIAN" THEN <<val[1], -val[2]>>
  ELSE IF symFlag = "SKEW_SYMMETRIC" THEN <<-val[1], -val[2]>>
  ELSE val

\* Data line i (0-based) as the loop reads it: source and destination from
\* the index in array format, the weight 1 for field pattern, one number
\* for a scalar_t that is not complex.
ReadLine(e, i, nr, format, field, scalar_t) ==
  [s |-> IF format = "ARRAY" THEN (i % nr) + 1 ELSE e.s,
   d |-> IF format = "ARRAY" THEN (i \div nr) + 1 ELSE e.d,
   w |-> IF field = "PATTERN" THEN <<1, 0>>
         ELSE IF is_complex(scalar_t) THEN e.w ELSE <<e.w[1], 0>>]

\* What the loop stores for an entry on the diagonal.
DiagonalEdges_kept(tmp, remove_diagonal) == <<tmp>>

DiagonalEdges(tmp, remove_diagonal) ==
  IF ~remove_diagonal THEN <<tmp>> ELSE <<>>

\* The loop over the nnz data lines: the edges kept, in file order.
RECURSIVE ReadEdges(_, _, _, _)
ReadEdges(c, i, edges, numDiagonal) ==
  IF i >= c.nnz THEN [edges |-> edges, numDiagonal |-> numDiagonal]
  ELSE LET l == ReadLine(c.entries[i + 1], i, c.nr, c.format, c.field, c.scalar_t)
           tmp == IF ~c.transpose
                    THEN [src |-> l.s - 1, dst |-> l.d - 1, ew |-> l.w]
                    ELSE [src |-> l.d - 1, dst |-> l.s - 1, ew |-> l.w]
           tmp2 == [src |-> tmp.dst, dst |-> tmp.src,
                    ew |-> symmetryFlip(tmp.ew, c.sym, c.scalar_t)]
       IN IF tmp.src = tmp.dst
            THEN ReadEdges(c, i + 1,
                           edges \o DiagonalEdges(tmp, c.remove_diagonal),
                           numDiagonal + 1)
            ELSE ReadEdges(c, i + 1,
                           IF c.symmetrize THEN edges \o <<tmp, tmp2>>
                           ELSE Append(edges, tmp),
                           numDiagonal)

\* Edge::operator<: by source, then by destination.
EdgeLess(a, b) == a.src < b.src \/ (a.src = b.src /\ a.dst < b.dst)

\* std::sort: any arrangement in which no edge is less than one before it.
SortedEdges(edges) ==
  {[k \in 1 .. Len(edges) |-> edges[o[k]]] :
     o \in {q \in Orders(Len(edges)) :
              \A k \in 1 .. Len(edges) - 1 : ~EdgeLess(edges[q[k + 1]], edges[q[k]])}}

\* The loop that builds the CRS arrays from the sorted edges; st holds the
\* row i, the cursor eind, is_first and the arrays written so far.
RECURSIVE FillCrs(_, _, _, _)
FillCrs(edges, nr, symmetrize, st) ==
  IF st.i >= nr THEN st
  ELSE IF st.eind < Len(edges) /\ edges[st.eind + 1].src = st.i
    THEN LET keep == \/ st.is_first
                     \/ ~symmetrize
                     \/ st.eind = 0
                     \/ edges[st.eind].dst # edges[st.eind + 1].dst
         IN FillCrs(edges, nr, symmetrize,
                    [st EXCEPT
                       !.adj = IF keep THEN Append(@, edges[st.eind + 1].dst) ELSE @,
                       !.ew = IF keep THEN Append(@, edges[st.eind + 1].ew) ELSE @,
                       !.is_first = FALSE,
                       !.eind = @ + 1])
    ELSE FillCrs(edges, nr, symmetrize,
                 [st EXCEPT !.i = @ + 1, !.is_first = TRUE,
                            !.xadj = Append(@, Len(st.adj))])

Outputs == {"nrows", "ncols", "ne", "xadj", "adj", "ew"}
MtxThrow(what) == [kind |-> "throw", what |-> what, written |-> {}]

\* read_mtx on an opened file: the outcomes it can end in.  xadj holds the
\* nr + 1 offsets, adj and ew the `actual` entries written, edges the
\* edges[0 .. nE) the loop over the data lines stored, before the sort.
read_mtx(f, scalar_t, symmetrize_, remove_diagonal_, transpose_) ==
  LET line == [banner |-> f.banner, words |-> f.words]
      format == MtxFormat(line)
      field == MtxField(line, scalar_t)
      sym == DefaultedSym(format, MtxSym(line))
      nr == f.size[1]
      nc == f.size[2]
      nnz_ == IF format = "COORDINATE" THEN f.size[3] ELSE nr * nc
      symm == symmetrize_ \/ sym # "GENERAL"
  IN IF HeaderError(line, scalar_t) # "none"
       THEN {MtxThrow(HeaderError(line, scalar_t))}
     ELSE IF SizeError(format, field, symm, nr, nc) # "none"
       THEN {MtxThrow(SizeError(format, field, symm, nr, nc))}
     ELSE IF Len(f.entries) < nnz_
       THEN {[kind |-> "undefined", what |-> "data line missing", written |-> Outputs]}
     ELSE
       LET read == ReadEdges([entries |-> f.entries, nnz |-> nnz_, nr |-> nr,
                              format |-> format, field |-> field,
                              scalar_t |-> scalar_t, transpose |-> transpose_,
                              remove_diagonal |-> remove_diagonal_,
                              symmetrize |-> symm, sym |-> sym],
                             0, <<>>, 0)
           rows == IF transpose_ THEN nc ELSE nr
           cols == IF transpose_ THEN nr ELSE nc
       IN {LET st == FillCrs(edges, rows, symm,
                             [i |-> 0, eind |-> 0, is_first |-> TRUE,
                              xadj |-> <<0>>, adj |-> <<>>, ew |-> <<>>])
           IN [kind |-> "ok", what |-> "", written |-> Outputs,
               nrows |-> rows, ncols |-> cols, ne |-> Len(st.adj),
               xadj |-> st.xadj, adj |-> st.adj, ew |-> st.ew,
               numDiagonal |-> read.numDiagonal, edges |-> read.edges] :
           edges \in SortedEdges(read.edges)}

\* Files given to the readers from outside.
Vocabulary ==
  {"matrix", "vector", "coordinate", "array", "real", "complex", "integer",
   "pattern", "general", "symmetric", "skew-symmetric", "hermitian"}
WordSets == {ws \in SUBSET Vocabulary : Cardinality(ws) <= MaxWords}
Banners == {"%%MatrixMarket", "%MatrixMarket", ""}
BodyHeaders ==
  {{"matrix", "coordinate", "real", sy} :
     sy \in {"general", "symmetric", "skew-symmetric"}}
  \cup {{"matrix", "coordinate", "complex", "hermitian"}}
DataLines(words) ==
  [s : {1, 2}, d : {1, 2},
   w : {IF "complex" \in words THEN <<2, 1>> ELSE <<2, 0>>}]

HeaderFiles ==
  [banner : {"%%MatrixMarket"}, words : WordSets, size : {<<2, 2, 1>>},
   entries : {[i \in 1 .. 4 |-> [s |-> 2, d |-> 1, w |-> <<-1, 1>>]]}]
  \cup
  [banner : Banners, words : {{"matrix", "coordinate", "real", "general"}},
   size : {<<2, 2, 1>>},
   entries : {[i \in 1 .. 4 |-> [s |-> 2, d |-> 1, w |-> <<-1, 1>>]]}]

BodyFiles ==
  UNION {[banner : {"%%MatrixMarket"}, words : {words},
          size : {<<2, 2, n>>, <<2, 3, n>>},
          entries : [1 .. n -> DataLines(words)]] :
           n \in 0 .. MaxNe, words \in BodyHeaders}

MtxFiles == HeaderFiles \cup BodyFiles
ScalarTypes == {DoubleT, IntT, ComplexDouble}

\* A MatrixMarket file is put where the readers look for it.
PutMtxFile ==
  \E f \in MtxFiles :
    /\ file = NoFile
    /\ call = NoCall
    /\ file' = [name |-> MtxName, format |-> "mtx", data |-> f]
    /\ UNCHANGED <<handle, op, args, ret, pre, pass, call, gen>>

ReadMtx ==
  \E name \in {MtxName, MmName}, scalar_t \in ScalarTypes,
     symmetrize_ \in BOOLEAN, remove_diagonal_ \in BOOLEAN, transpose_ \in BOOLEAN :
    /\ file.format \in {"none", "mtx"}
    /\ Unread
    /\ \E out \in (IF file.format = "none" \/ file.name # name
                     THEN {MtxThrow("File cannot be opened")}
                     ELSE read_mtx(file.data, scalar_t, symmetrize_,
                                   remove_diagonal_, transpose_)) :
         Invoke("read_mtx",
                <<name, scalar_t, symmetrize_, remove_diagonal_, transpose_>>, out)
    /\ UNCHANGED file

\* ------------------------------------------------------ edge list to CSR
\* The loop both conversions run over the sorted edges.  edges[eind] is read
\* without comparing eind with the length of the vector: once every edge is
\* consumed the read is past the end (past_end) and its value is arbitrary.
\* The run in which that value differs from every row index is followed
\* here; any other is the outcome "undefined".
RECURSIVE ConvertLoop(_, _, _)
ConvertLoop(edges, nv, st) ==
  IF st.i >= nv THEN st
  ELSE IF st.eind < Len(edges) /\ edges[st.eind + 1].src = st.i
    THEN ConvertLoop(edges, nv,
                     [st EXCEPT !.adj = Append(@, edges[st.eind + 1].dst),
                                !.crs_ew = Append(@, edges[st.eind + 1].ew),
                                !.eind = @ + 1])
    ELSE ConvertLoop(edges, nv,
                     [st EXCEPT !.i = @ + 1,
                                !.xadj = Append(@, st.eind),
                                !.past_end = @ \/ st.eind >= Len(edges)])

Converted(edges, nv) ==
  UNION {LET st == ConvertLoop(sorted, nv,
                               [i |-> 0, eind |-> 0, xadj |-> <<0>>, adj |-> <<>>,
                                crs_ew |-> <<>>, past_end |-> FALSE])
             run == [kind |-> "ok", xadj |-> st.xadj, adj |-> st.adj,
                     crs_ew |-> st.crs_ew, past_end |-> st.past_end]
         IN IF st.past_end THEN {run, [run EXCEPT !.kind = "undefined"]}
            ELSE {run} : sorted \in SortedEdges(edges)}

convert_edge_list_to_csr(nv, ne, srcs, dests, ew) ==
  Converted([i \in 1 .. ne |-> [src |-> srcs[i], dst |-> dests[i], ew |-> ew[i]]],
            nv)

\* Every edge is entered in both directions; the weights stay unset.
convert_undirected_edge_list_to_csr(nv, ne, srcs, dests) ==
  Converted([k \in 1 .. 2 * ne |->
               IF k % 2 = 1
                 THEN [src |-> srcs[(k + 1) \div 2], dst |-> dests[(k + 1) \div 2],
                       ew |-> 0]
                 ELSE [src |-> dests[k \div 2], dst |-> srcs[k \div 2], ew |-> 0]],
            nv)

\* Edge lists whose endpoints lie in [0, nv).
EdgeLists ==
  UNION {[nv : {nv}, ne : {ne}, srcs : [1 .. ne -> 0 .. nv - 1],
          dests : [1 .. ne -> 0 .. nv - 1]] :
           nv \in 0 .. MaxRows, ne \in 0 .. MaxNe}

ConvertEdgeListToCsr ==
  \E l \in EdgeLists :
    \E out \in convert_edge_list_to_csr(l.nv, l.ne, l.srcs, l.dests,
                                        [i \in 1 .. l.ne |-> i]) :
      Apply("convert_edge_list_to_csr", l, out)

ConvertUndirectedEdgeListToCsr ==
  \E l \in EdgeLists :
    \E out \in convert_undirected_edge_list_to_csr(l.nv, l.ne, l.srcs, l.dests) :
      Apply("convert_undirected_edge_list_to_csr", l, out)

EdgeNext ==
  \/ ConvertEdgeListToCsr
  \/ ConvertUndirectedEdgeListToCsr

EdgeSpec == UtilInit /\ [][EdgeNext]_vars

\* ------------------------------------------------- writers chosen by suffix
LigraName == <<"g", ".", "l", "i", "g", "r", "a">>
CrsName == <<"g", ".", "c", "r", "s">>
TxtName == <<"g", ".", "t", "x", "t">>
NoDotName == <<"g", "b", "i", "n">>
UpperName == <<"g", ".", "B", "I", "N">>
LongerName == <<"a", ".", "m", "t", "x", ".", "g", "z">>
FileNames ==
  {MtxName, MmName, BinName, LigraName, CrsName, TxtName, BareName, NoDotName,
   UpperName, LongerName}

\* KokkosKernels::Impl::endswith
endswith(fullString, ending) ==
  /\ Len(fullString) >= Len(ending)
  /\ SubSeq(fullString, Len(fullString) - Len(ending) + 1, Len(fullString)) = ending

IsMatrixMarketName_mtxonly(name) == endswith(name, <<".", "m", "t", "x">>)

IsMatrixMarketName(name) ==
  endswith(name, <<".", "m", "t", "x">>) \/ endswith(name, <<".", "m", "m">>)

\* The entries adj[b .. e - 1] of row i.
RowEntries(xadj, a, i) ==
  [k \in 1 .. At(xadj, i + 1) - At(xadj, i) |-> At(a, At(xadj, i) + k - 1)]

\* write_matrix_mtx: one data line per stored entry, 1-based.
RECURSIVE MtxLines(_, _, _, _, _)
MtxLines(i, nrows_, xadj, adj, vals) ==
  IF i >= nrows_ THEN <<>>
  ELSE [k \in 1 .. At(xadj, i + 1) - At(xadj, i) |->
          [s |-> i + 1, d |-> At(adj, At(xadj, i) + k - 1) + 1,
           w |-> <<At(vals, At(xadj, i) + k - 1), 0>>]]
       \o MtxLines(i + 1, nrows_, xadj, adj, vals)

write_matrix_mtx(nrows_, ncols_, nentries, xadj, adj, vals, scalar_t) ==
  [banner |-> "%%MatrixMarket",
   words |-> {"matrix", "coordinate",
              IF is_complex(scalar_t) THEN "complex" ELSE "real", "general"},
   size |-> <<nrows_, ncols_, nentries>>,
   entries |-> MtxLines(0, nrows_, xadj, adj, vals)]

\* write_graph_crs: the numbers in the order written, the weights apart.
RECURSIVE CrsRows(_, _, _, _)
CrsRows(i, nv, xadj, adj) ==
  IF i >= nv THEN <<>>
  ELSE RowEntries(xadj, adj, i) \o CrsRows(i + 1, nv, xadj, adj)

write_graph_crs(nv, ne, xadj, adj, ew) ==
  [tokens |-> <<nv, ne>> \o SubSeq(xadj, 1, nv + 1) \o CrsRows(0, nv, xadj, adj),
   weights |-> SubSeq(ew, 1, ne)]

\* write_graph_ligra: after the line "AdjacencyGraph".
write_graph_ligra(nv, ne, xadj, adj, ew) ==
  [tokens |-> <<nv, ne>> \o SubSeq(xadj, 1, nv) \o SubSeq(adj, 1, ne)]

\* read_graph_crs on the numbers of a file.
read_graph_crs(data) ==
  IF Len(data.tokens) < 2 THEN [kind |-> "garbage"]
  ELSE LET nv == data.tokens[1]
           ne == data.tokens[2]
       IN IF nv < 0 \/ Len(data.tokens) < 2 + nv + 1 + ne \/ Len(data.weights) < ne
            THEN [kind |-> "garbage"]
            ELSE [kind |-> "ok", nv |-> nv, ne |-> ne,
                  xadj |-> SubSeq(data.tokens, 3, nv + 3),
                  adj |-> SubSeq(data.tokens, nv + 4, nv + 3 + ne),
                  ew |-> SubSeq(data.weights, 1, ne)]

\* Matrices handed to write_kokkos_crst_matrix: square and wider than tall.
Matrices ==
  {kk_generate_diag_matrix(n, FALSE) : n \in 0 .. MaxNv}
  \cup {kk_sparseMatrix_generate_lower_upper_triangle(uplo, r, c) :
          uplo \in {"L", "U"}, r \in 0 .. MaxNv, c \in MaxNv .. MaxNv + 1}

Written(name, format, data) ==
  [file |-> [name |-> name, format |-> format, data |-> data],
   out |-> [kind |-> "ok", what |-> ""]]
NotWritten(what) == [file |-> file, out |-> [kind |-> "throw", what |-> what]]

\* write_kokkos_crst_matrix: the file it leaves and its outcome.
write_kokkos_crst_matrix(a_crsmat, filename, scalar_t) ==
  IF IsMatrixMarketName(filename)
    THEN Written(filename, "mtx",
                 write_matrix_mtx(a_crsmat.nrows, a_crsmat.ncols, a_crsmat.nnz,
                                  a_crsmat.rowPtr, a_crsmat.colInd,
                                  a_crsmat.values, scalar_t))
  ELSE IF a_crsmat.nrows # a_crsmat.ncols
    THEN NotWritten("only supports square matrices")
  ELSE IF endswith(filename, <<".", "b", "i", "n">>)
    THEN Written(filename, "bin",
                 write_graph_bin(a_crsmat.nrows, a_crsmat.nnz, a_crsmat.rowPtr,
                                 a_crsmat.colInd, a_crsmat.values))
  ELSE IF endswith(filename, <<".", "l", "i", "g", "r", "a">>)
    THEN Written(filename, "ligra",
                 write_graph_ligra(a_crsmat.nrows, a_crsmat.nnz, a_crsmat.rowPtr,
                                   a_crsmat.colInd, a_crsmat.values))
  ELSE IF endswith(filename, <<".", "c", "r", "s">>)
    THEN Written(filename, "crs",
                 write_graph_crs(a_crsmat.nrows, a_crsmat.nnz, a_crsmat.rowPtr,
                                 a_crsmat.colInd, a_crsmat.values))
  ELSE NotWritten("does not correspond to a known format")

WriteMatrix ==
  \E a_crsmat \in Matrices, filename \in FileNames :
    /\ file = NoFile
    /\ file' = write_kokkos_crst_matrix(a_crsmat, filename, DoubleT).file
    /\ Invoke("write_kokkos_crst_matrix", <<a_crsmat, filename>>,
              write_kokkos_crst_matrix(a_crsmat, filename, DoubleT).out)

\* read_matrix: the outcomes of the reader the suffix selects; a reader
\* that finds no file, or one in another format, ends with garbage or throws.
read_matrix(filename, scalar_t) ==
  LET found == file.format # "none" /\ file.name = filename
  IN IF IsMatrixMarketName(filename)
       THEN (IF found /\ file.format = "mtx"
               THEN read_mtx(file.data, scalar_t, FALSE, FALSE, FALSE)
               ELSE {MtxThrow(IF found THEN "Invalid MM file. Line-1"
                              ELSE "File cannot be opened")})
     ELSE IF endswith(filename, <<".", "b", "i", "n">>)
       THEN {IF found /\ file.format = "bin" THEN read_graph_bin(file.data)
             ELSE [kind |-> "garbage"]}
     ELSE IF endswith(filename, <<".", "c", "r", "s">>)
       THEN {IF found /\ file.format = "crs" THEN read_graph_crs(file.data)
             ELSE [kind |-> "garbage"]}
     ELSE {[kind |-> "throw", what |-> "Reader is not available"]}

ReadMatrix ==
  \E filename \in FileNames : \E out \in read_matrix(filename, DoubleT) :
    /\ Unread
    /\ Invoke("read_matrix", <<filename>>, out)
    /\ UNCHANGED file


IoNext ==
  \/ WriteGraphBin
  \/ ReadGraphBin
  \/ PutMtxFile
  \/ ReadMtx
  \/ WriteMatrix
  \/ ReadMatrix

IoSpec == UtilInit /\ [][IoNext]_vars

\* A handle on which passes are run again and again, on the generated
\* patterns and on the scenario pattern, with resets in between.
RerunPatterns ==
  {PatternOf(kk_generate_diag_matrix(n, FALSE)) : n \in 0 .. MaxRows}
    \cup {PatternOf(kk_sparseMatrix_generate_lower_upper_triangle("L", n, n)) :
            n \in 0 .. MaxRows}
    \cup {ScenarioPattern}

RerunInit == Constructed(Algorithms, {0}, {0}, {FALSE})

RerunNext ==
  \/ \E n \in DimInputs, l \in NnzInputs, u \in NnzInputs : ResetHandle(n, l, u)
  \/ \E p \in RerunPatterns : SymbolicBegin(p)
  \/ LevelAssign
  \/ LevelBucket
  \/ LevelRecord
  \/ \E c \in 1 .. MaxChunk : LevelChunk(c)
  \/ SymbolicFinish
  \/ KeepSchedule

RerunSpec == RerunInit /\ [][RerunNext]_vars

\* ------------------------------------------------------------------ claims
AllZero(v) == \A i \in 1 .. Len(v) : v[i] = 0
NoEntries(w) == DOMAIN w.val = {}

\* C1: a schedule accessor called while is_symbolic_complete() is false
\* yields an error outcome instead of returning array data.
C1_GuardedAccess ==
  (op \in ScheduleAccessors /\ ~is_symbolic_complete) => ret.kind = "throw"

\* The derived schedule is consistent: level_ptr starts at 0, is
\* non-decreasing over 0..nlevels, ends at nrows, and level_idx[0..nrows)
\* lists every row exactly once.
ScheduleConsistent ==
  /\ Len(level_ptr) >= nlevels + 1
  /\ Len(level_idx) >= nrows
  /\ At(level_ptr, 0) = 0
  /\ \A k \in 0 .. nlevels - 1 : At(level_ptr, k) <= At(level_ptr, k + 1)
  /\ At(level_ptr, nlevels) = nrows
  /\ \A r \in 0 .. nrows - 1 :
       Cardinality({q \in 0 .. nrows - 1 : At(level_idx, q) = r}) = 1

\* C2: in every state the public operations reach, is_symbolic_complete()
\* true implies a fully consistent schedule.
C2_NoPartialSchedule == is_symbolic_complete => ScheduleConsistent

CtorDerivedStateEmpty ==
  /\ nlevels = 0
  /\ level_maxrows = 0
  /\ level_maxrowsperchunk = 0
  /\ level_list = <<>>
  /\ level_idx = <<>>
  /\ level_ptr = <<>>
  /\ level_nchunks = <<>>
  /\ level_nrowsperchunk = <<>>
  /\ NoEntries(iw)

C4_ResetReinitializes ==
  (op = "reset_handle" /\ ret.kind = "void") =>
    /\ ~is_symbolic_complete
    /\ get_nrows = args[1] /\ get_nnzL = ToSizeType(args[2])
    /\ get_nnzU = ToSizeType(args[3])
    /\ nlevels = 0 /\ level_maxrows = 0 /\ level_maxrowsperchunk = 0
    /\ Len(level_list) = args[1] /\ AllZero(level_list)
    /\ Len(level_idx) = args[1] /\ AllZero(level_idx)
    /\ Len(level_ptr) = args[1] + 1 /\ AllZero(level_ptr)
    /\ level_nchunks = <<>>
    /\ level_nrowsperchunk = <<>>
    /\ NoEntries(get_iw)

C4_Witness ==
  /\ op = "reset_handle" /\ ret.kind = "void"
  /\ pre.complete /\ pre.nlevels = MaxRows
  /\ algm = "SEQLVLSCHD_TP1" /\ nrows = MaxRows - 1

\* C5: after alloc_iw(r, c) iw has extent r x c and every entry is the
\* sentinel -1; after reset_handle no entry other than -1 is readable
\* through get_iw().
C5_IwSentinel ==
  /\ (op = "alloc_iw" /\ ret.kind = "void") =>
       /\ get_iw.ext0 = args[1] /\ get_iw.ext1 = args[2]
       /\ DOMAIN get_iw.val = (0 .. args[1] - 1) \X (0 .. args[2] - 1)
       /\ \A q \in DOMAIN get_iw.val : get_iw.val[q] = -1
  /\ (op = "reset_handle" /\ ret.kind = "void") => ~IwDirty(get_iw)

C5_Witness ==
  /\ op = "alloc_iw" /\ ret.kind = "void" /\ pre.iw_dirty
  /\ args = <<1, 1>> /\ get_iw.val[<<0, 0>>] = -1

\* C6: StringToSPILUKAlgorithm maps SPILUK_DEFAULT and SPILUK_RANGEPOLICY to
\* SEQLVLSCHD_RP, SPILUK_TEAMPOLICY1 to SEQLVLSCHD_TP1, throws for every
\* other name, and leaves every field of the handle as it was.
C6_StringToAlgorithm ==
  [][\A name \in AlgorithmNames :
       (op' = "StringToSPILUKAlgorithm" /\ args' = <<name>>) =>
         /\ name \in {"SPILUK_DEFAULT", "SPILUK_RANGEPOLICY"} =>
              (ret'.kind = "value" /\ ret'.val = "SEQLVLSCHD_RP")
         /\ name = "SPILUK_TEAMPOLICY1" =>
              (ret'.kind = "value" /\ ret'.val = "SEQLVLSCHD_TP1")
         /\ name \notin {"SPILUK_DEFAULT", "SPILUK_RANGEPOLICY",
                         "SPILUK_TEAMPOLICY1"} => ret'.kind = "throw"
         /\ UNCHANGED <<arrays, iw, scalars, symbolic_complete, tuning>>]_vars

C6_Witness ==
  /\ op = "StringToSPILUKAlgorithm" /\ args = <<"SPILUK_TEAMPOLICY1">>
  /\ ret.kind = "value" /\ algm = "SEQLVLSCHD_RP"

\* C7: a negative dimension passed to the constructor or to reset_handle
\* fails with an error at the call, and the handle never holds a negative or
\* wrapped-around nrows.
C7_InvalidDimensionFailsFast ==
  /\ (op = "SPILUKHandle" /\ (args[2] < 0 \/ args[3] < 0 \/ args[4] < 0)) =>
       ret.kind = "throw"
  /\ (op = "reset_handle" /\ (args[1] < 0 \/ args[2] < 0 \/ args[3] < 0)) =>
       ret.kind = "throw"
  /\ nrows \in 0 .. MaxRows

JustCompleted == op = "symbolic"

\* C8: after a completed pass every dependency j of a row i has
\* level_list[j] < level_list[i].
C8_LevelValidity ==
  JustCompleted =>
    \A i \in 0 .. nrows - 1 : \A j \in Deps(pat, i) :
      At(level_list, j) < At(level_list, i)

C8_Witness ==
  /\ JustCompleted /\ nrows = MaxRows
  /\ \E i \in 0 .. nrows - 1 : Cardinality(Deps(pat, i)) >= 2

\* C9: after a completed pass level(i) = 1 + max of the levels of i's
\* dependencies, and 0 for a row without dependencies.
C9_LongestPathLayering ==
  JustCompleted =>
    \A i \in 0 .. nrows - 1 :
      At(level_list, i) =
        IF Deps(pat, i) = {} THEN 0
        ELSE 1 + Max({At(level_list, j) : j \in Deps(pat, i)})

C9_Witness ==
  /\ JustCompleted
  /\ \E i \in 0 .. nrows - 1 : \E j \in Deps(pat, i), k \in Deps(pat, i) :
       At(level_list, j) < At(level_list, k)

LevelSlice(k) == {At(level_idx, q) : q \in At(level_ptr, k) .. At(level_ptr, k + 1) - 1}

\* C10: after a completed pass level_ptr[0] = 0, level_ptr is non-decreasing,
\* level_ptr[nlevels] = nrows, every row is in exactly one slice of
\* level_idx, and it is in slice k exactly when level_list[row] = k.
C10_LevelCompleteness ==
  JustCompleted =>
    /\ At(level_ptr, 0) = 0
    /\ \A k \in 0 .. nlevels - 1 : At(level_ptr, k) <= At(level_ptr, k + 1)
    /\ At(level_ptr, nlevels) = nrows
    /\ \A r \in 0 .. nrows - 1 :
         /\ Cardinality({q \in 0 .. nrows - 1 : At(level_idx, q) = r}) = 1
         /\ \A k \in 0 .. nlevels - 1 :
              (r \in LevelSlice(k)) <=> (At(level_list, r) = k)

C10_Witness ==
  /\ JustCompleted /\ nrows = MaxRows /\ nlevels = 2
  /\ \E k \in 0 .. nlevels - 1 : Cardinality(LevelSlice(k)) = 2

\* C11: the diagonal n x n pattern of kk_generate_diag_matrix is scheduled
\* as exactly 1 level holding all n rows, the dense lower-triangular pattern
\* of kk_sparseMatrix_generate_lower_upper_triangle('L') as exactly n levels
\* of one row each in row order, and neither pass ends in an error.
C11_DegenerateSchedules ==
  JustCompleted =>
    /\ (nrows >= 1 /\ pat = PatternOf(kk_generate_diag_matrix(nrows, FALSE))) =>
         /\ nlevels = 1
         /\ LevelSlice(0) = 0 .. nrows - 1
         /\ ret.kind = "void"
    /\ pat = PatternOf(kk_sparseMatrix_generate_lower_upper_triangle("L", nrows, nrows)) =>
         /\ nlevels = nrows
         /\ \A k \in 0 .. nrows - 1 : LevelSlice(k) = {k} /\ At(level_idx, k) = k
         /\ ret.kind = "void"

C11_Witness ==
  /\ JustCompleted /\ nrows = MaxRows /\ nlevels = MaxRows
  /\ pat = PatternOf(kk_sparseMatrix_generate_lower_upper_triangle("L", nrows, nrows))

\* C12: under SEQLVLSCHD_TP1, after a completed pass, for every level k
\* level_nrowsperchunk[k] * level_nchunks[k] >= level_ptr[k+1] - level_ptr[k],
\* and level_maxrowsperchunk is the maximum of level_nrowsperchunk.
C12_ChunkingConsistency ==
  (JustCompleted /\ algm = "SEQLVLSCHD_TP1") =>
    /\ Len(level_nchunks) = nlevels
    /\ Len(level_nrowsperchunk) = nlevels
    /\ \A k \in 0 .. nlevels - 1 :
         At(level_nrowsperchunk, k) * At(level_nchunks, k) >= LevelSize(level_ptr, k)
    /\ nlevels > 0 =>
         get_level_maxrowsperchunk =
           Max({At(level_nrowsperchunk, k) : k \in 0 .. nlevels - 1})

C12_Witness ==
  /\ JustCompleted /\ algm = "SEQLVLSCHD_TP1" /\ nlevels >= 2
  /\ \E k \in 0 .. nlevels - 1 : At(level_nchunks, k) >= 2

\* C13: for the 5 x 5 pattern in which rows 2 and 4 depend on all earlier
\* rows and rows 0, 1, 3 are diagonal-only, the pass yields rows {0,1,3} at
\* level 0, row 2 at level 1, row 4 at level 2, nlevels = 3 and
\* level_ptr = [0,3,4,5].
C13_EndToEndScenario ==
  (JustCompleted /\ pat = ScenarioPattern) =>
    /\ level_list = <<0, 0, 1, 0, 2>>
    /\ LevelSlice(0) = {0, 1, 3}
    /\ LevelSlice(1) = {2}
    /\ LevelSlice(2) = {4}
    /\ nlevels = 3
    /\ SubSeq(level_ptr, 1, nlevels + 1) = <<0, 3, 4, 5>>

C13_Witness ==
  JustCompleted /\ pat = ScenarioPattern /\ symbolic_complete /\ nlevels = 3

\* C14: a pass run again on the same pattern, after reset_handle with the
\* same arguments, yields the level_list, level_ptr and level_idx of the
\* earlier pass; and a reset_handle call directly after a reset_handle call
\* with the same arguments leaves the handle as the first call left it.
C14_Idempotence ==
  [][/\ (op' = "symbolic" /\ last'.done /\ last'.pat = pat') =>
          /\ level_list' = last'.level_list
          /\ level_ptr' = last'.level_ptr
          /\ level_idx' = last'.level_idx
     /\ (op = "reset_handle" /\ ret.kind = "void"
           /\ op' = "reset_handle" /\ args' = args) =>
          /\ handle' = handle
          /\ ret' = ret]_vars

C14_Witness ==
  /\ op = "symbolic" /\ last.done /\ last.pat = pat
  /\ nrows = MaxRows /\ nlevels = MaxRows

\* The CRS invariants of a generated matrix.
CrsValid(m) ==
  /\ m.kind = "ok"
  /\ Len(m.rowPtr) = m.nrows + 1
  /\ At(m.rowPtr, 0) = 0
  /\ \A i \in 0 .. m.nrows - 1 : At(m.rowPtr, i) <= At(m.rowPtr, i + 1)
  /\ m.nnz = At(m.rowPtr, m.nrows)
  /\ Len(m.colInd) = m.nnz
  /\ \A k \in 0 .. m.nnz - 1 : At(m.colInd, k) \in 0 .. m.ncols - 1

\* C15: the CRS triple of kk_sparseMatrix_generate_lower_upper_triangle
\* satisfies the CRS invariants for uplo 'L' and 'U' and every nrows >= 0,
\* ncols >= 0, equal or not: rowPtr[0] = 0, rowPtr non-decreasing,
\* nnz = rowPtr[nrows], every colInd entry in [0, ncols).
C15_GeneratedCrsValid ==
  call.fn = "kk_sparseMatrix_generate_lower_upper_triangle" => CrsValid(call.out)

\* The base type of a type: its tokens without const.
Decayed(t) == SelectSeq(t, LAMBDA tok : tok # "const")

\* C16: spmv_bsrmatrix_tpl_spec_avail and spmv_mv_bsrmatrix_tpl_spec_avail
\* are false for every key that matches no listed specialization, and with
\* cuSPARSE enabled they are true only for keys whose ordinal and offset
\* types are both int.
C16_FallbackByDefault ==
  /\ call.fn = "spmv_bsrmatrix_tpl_spec_avail" =>
       /\ TypeArgs(call.in[1]) \notin
            {TypeArgs(sp) : sp \in BsrSpecializations(AllEnabled)}
              => call.out = FALSE
       /\ (~call.in[2].cusparse /\ ~call.in[2].mkl) => call.out = FALSE
       /\ (call.in[2].cusparse /\ call.out = TRUE) =>
            (Decayed(call.in[1].AO) = IntT /\ Decayed(call.in[1].AS) = IntT)
  /\ call.fn = "spmv_mv_bsrmatrix_tpl_spec_avail" =>
       /\ TypeArgs(call.in[1]) \notin
            {TypeArgs(sp) : sp \in MvBsrSpecializations(AllEnabled)}
              => call.out = FALSE
       /\ (~call.in[2].cusparse /\ ~call.in[2].mkl) => call.out = FALSE
       /\ (call.in[2].cusparse /\ call.out = TRUE) =>
            (Decayed(call.in[1].AO) = IntT /\ Decayed(call.in[1].AS) = IntT)

C16_Witness ==
  /\ call.fn = "spmv_bsrmatrix_tpl_spec_avail"
  /\ call.in[2].cusparse /\ call.out = TRUE
  /\ call.in[1].AD = Device("Cuda", "CudaUVMSpace")

ReadBack(g) ==
  [kind |-> "ok", nv |-> g.nv, ne |-> g.ne, xadj |-> g.xadj, adj |-> g.adj,
   ew |-> g.ew]

\* C18: write_graph_bin followed by read_graph_bin is a round trip: the
\* file holds nv, ne, xadj (nv + 1 entries), adj (ne), ew (ne) in this
\* order, and reading it back yields the nv, ne, xadj, adj and ew written,
\* for every graph with nv >= 0 and ne >= 0.
FieldsInOrder(g, bytes) ==
  LET o1 == LnoBytes + SizeBytes
      o2 == o1 + (g.nv + 1) * SizeBytes
      o3 == o2 + g.ne * LnoBytes
  IN /\ Len(bytes) = o3 + g.ne * ScalarBytes
     /\ DecodeSigned(SubSeq(bytes, 1, LnoBytes)) = g.nv
     /\ DecodeUnsigned(SubSeq(bytes, LnoBytes + 1, o1)) = g.ne
     /\ DecodeArray(bytes, o1, g.nv + 1, SizeBytes, FALSE) = g.xadj
     /\ DecodeArray(bytes, o2, g.ne, LnoBytes, TRUE) = g.adj
     /\ DecodeArray(bytes, o3, g.ne, ScalarBytes, TRUE) = g.ew

C18_GraphBinRoundTrip ==
  [][/\ call'.fn = "write_graph_bin" => FieldsInOrder(call'.in[1], file'.data)
     /\ (call.fn = "write_graph_bin" /\ call'.fn = "read_graph_bin"
           /\ call'.in[1] = file.name) =>
          call'.out = ReadBack(call.in[1])]_vars

C18_Witness ==
  /\ call.fn = "read_graph_bin" /\ call.in[1] = file.name
  /\ call.out.kind = "ok" /\ call.out.nv = MaxNv /\ call.out.ne = MaxNe
  /\ call.out.adj[1] = 300 /\ call.out.ew[1] = -1

\* The first line of the file read_mtx was called on.
HeaderLine == [banner |-> file.data.banner, words |-> file.data.words]

\* C20: read_mtx raises an error for a header that misses the object type,
\* the format, the field type or, in coordinate format, the symmetry type,
\* for a 'vector' object, and for array format with a symmetry other than
\* general or with field type pattern; an error leaves every output
\* unallocated and unwritten.
C20_HeaderValidation ==
  (call.fn = "read_mtx" /\ file.format = "mtx" /\ call.in[1] = file.name) =>
    LET scalar_t == call.in[2]
        Missing(keywords) == \A k \in keywords : ~Find(HeaderLine, k)
    IN /\ Missing({"matrix", "vector"}) => call.out.kind = "throw"
       /\ Missing({"coordinate", "array"}) => call.out.kind = "throw"
       /\ Missing({"real", "double", "complex", "integer", "pattern"}) =>
            call.out.kind = "throw"
       /\ (Find(HeaderLine, "coordinate")
             /\ Missing({"general", "symmetric", "hermitian", "Hermitian"})) =>
            call.out.kind = "throw"
       /\ (Find(HeaderLine, "vector") /\ ~Find(HeaderLine, "matrix")) =>
            call.out.kind = "throw"
       /\ (MtxFormat(HeaderLine) = "ARRAY"
             /\ MtxSym(HeaderLine) \notin {"GENERAL", "UNDEFINED_SYMMETRY"}) =>
            call.out.kind = "throw"
       /\ (MtxFormat(HeaderLine) = "ARRAY"
             /\ MtxField(HeaderLine, scalar_t) = "PATTERN") =>
            call.out.kind = "throw"
       /\ call.out.kind = "throw" => call.out.written = {}
       /\ call.out.kind = "ok" =>
            /\ MtxObject(HeaderLine) = "MATRIX"
            /\ MtxFormat(HeaderLine) \in {"COORDINATE", "ARRAY"}
            /\ MtxField(HeaderLine, scalar_t) \in FieldTypes \ {"UNDEFINED_FIELD"}
            /\ MtxFormat(HeaderLine) = "COORDINATE" =>
                 MtxSym(HeaderLine) # "UNDEFINED_SYMMETRY"

C20_Witness ==
  /\ call.fn = "read_mtx" /\ file.format = "mtx" /\ call.in[1] = file.name
  /\ file.data.words = {"matrix", "coordinate", "real"}
  /\ call.in[2] = DoubleT
  /\ call.out.kind = "throw" /\ call.out.written = {}

\* C19: write_kokkos_crst_matrix writes MatrixMarket for the suffixes .mtx
\* and .mm whatever the shape; for every other suffix a non-square matrix
\* raises an error and no file is written; .bin, .ligra and .crs select
\* their writers for a square matrix, any other suffix raises the unknown
\* format error; read_matrix raises an error for every suffix other than
\* .mtx, .mm, .bin and .crs.
C19_SuffixDispatch ==
  /\ call.fn = "write_kokkos_crst_matrix" =>
       LET m == call.in[1]
           name == call.in[2]
           Suffix(e) == endswith(name, e)
           mm == Suffix(<<".", "m", "t", "x">>) \/ Suffix(<<".", "m", "m">>)
           square == m.nrows = m.ncols
           Wrote(format) ==
             call.out.kind = "ok" /\ file.name = name /\ file.format = format
           Raised(what) ==
             call.out.kind = "throw" /\ call.out.what = what /\ file = NoFile
       IN /\ mm => Wrote("mtx")
          /\ (~mm /\ ~square) => Raised("only supports square matrices")
          /\ (~mm /\ square /\ Suffix(<<".", "b", "i", "n">>)) => Wrote("bin")
          /\ (~mm /\ square /\ Suffix(<<".", "l", "i", "g", "r", "a">>)) =>
               Wrote("ligra")
          /\ (~mm /\ square /\ Suffix(<<".", "c", "r", "s">>)) => Wrote("crs")
          /\ (~mm /\ square /\ ~Suffix(<<".", "b", "i", "n">>)
                /\ ~Suffix(<<".", "l", "i", "g", "r", "a">>)
                /\ ~Suffix(<<".", "c", "r", "s">>)) =>
               Raised("does not correspond to a known format")
  /\ call.fn = "read_matrix" =>
       LET Suffix(e) == endswith(call.in[1], e)
       IN (~Suffix(<<".", "m", "t", "x">>) /\ ~Suffix(<<".", "m", "m">>)
             /\ ~Suffix(<<".", "b", "i", "n">>) /\ ~Suffix(<<".", "c", "r", "s">>)) =>
            (call.out.kind = "throw" /\ call.out.what = "Reader is not available")

C19_Witness ==
  /\ call.fn = "write_kokkos_crst_matrix"
  /\ call.in[1].nrows # call.in[1].ncols
  /\ call.in[2] = BinName
  /\ call.out.kind = "throw" /\ file = NoFile

\* The entries (row, column, value) of the CRS arrays read_mtx returned.
CrsEntries(out) ==
  {<<p[1], out.adj[p[2]], out.ew[p[2]]>> :
     p \in {q \in (0 .. out.nrows - 1) \X (1 .. out.ne) :
              out.xadj[q[1] + 1] < q[2] /\ q[2] <= out.xadj[q[1] + 2]}}

\* The symmetry the words of the header stand for.
HeaderSymmetry(words) ==
  IF "general" \in words THEN "general"
  ELSE IF "skew-symmetric" \in words THEN "skew-symmetric"
  ELSE IF "symmetric" \in words THEN "symmetric"
  ELSE IF "hermitian" \in words THEN "hermitian"
  ELSE "none"

\* w' of the claim: w, -w or conj(w).
Mirrored(w, symmetry) ==
  IF symmetry = "skew-symmetric" THEN <<-w[1], -w[2]>>
  ELSE IF symmetry = "hermitian" THEN <<w[1], -w[2]>>
  ELSE w

InputPosition(f, k) ==
  IF "coordinate" \in f.words THEN <<f.entries[k].s, f.entries[k].d>>
  ELSE <<((k - 1) % f.size[1]) + 1, ((k - 1) \div f.size[1]) + 1>>

InputCount(f) ==
  IF "coordinate" \in f.words THEN f.size[3] ELSE f.size[1] * f.size[2]

\* The slots of the returned adj that hold column c in row r.
CrsSlots(out, r, c) ==
  {k \in 1 .. out.ne :
     out.xadj[r + 1] < k /\ k <= out.xadj[r + 2] /\ out.adj[k] = c}

RowColumns(g, r) == [j \in 1 .. g.rowPtr[r + 2] - g.rowPtr[r + 1] |->
                       g.colInd[g.rowPtr[r + 1] + j]]

Distinct(columns) ==
  \A i, j \in DOMAIN columns : columns[i] = columns[j] => i = j

\* C23: what kk_sparseMatrix_generate returns is a valid CRS pattern for all
\* nrows >= 0 and ncols >= 0: rowPtr[0] = 0, rowPtr non-decreasing, every
\* row with 0 to floor(0.66 * ncols) entries, nnz = rowPtr[nrows], every
\* column index in [0, ncols) and none repeated within a row.
C23_RandomCrsValid ==
  (gen.pc = "done" /\ gen.fn = Random) =>
    /\ Len(gen.rowPtr) = gen.nrows + 1
    /\ gen.rowPtr[1] = 0
    /\ gen.nnz = gen.rowPtr[gen.nrows + 1]
    /\ Len(gen.colInd) = gen.nnz
    /\ \A r \in 0 .. gen.nrows - 1 :
         /\ gen.rowPtr[r + 1] <= gen.rowPtr[r + 2]
         /\ 100 * (gen.rowPtr[r + 2] - gen.rowPtr[r + 1]) <= 66 * gen.ncols
         /\ \A j \in DOMAIN RowColumns(gen, r) :
              RowColumns(gen, r)[j] \in 0 .. gen.ncols - 1
         /\ Distinct(RowColumns(gen, r))

C23_Witness ==
  /\ gen.pc = "done" /\ gen.fn = Random
  /\ gen.nrows = MaxNv /\ gen.ncols = MaxCols
  /\ gen.rowPtr[2] = (66 * MaxCols) \div 100
  /\ gen.rowPtr[3] = gen.rowPtr[2]

\* C24: kk_diagonally_dominant_sparseMatrix_generate gives every row at
\* least one entry and the diagonal: the last entry of a row's slice has the
\* row as its column and no other entry of the row has, the columns of a row
\* are distinct and in [0, ncols), rowPtr increases strictly and
\* nnz = rowPtr[nrows].
C24_DominantRows ==
  (gen.pc = "done" /\ gen.fn = Dominant) =>
    /\ gen.nnz = gen.rowPtr[gen.nrows + 1]
    /\ Len(gen.colInd) = gen.nnz
    /\ \A r \in 0 .. gen.nrows - 1 :
         LET columns == RowColumns(gen, r)
         IN /\ gen.rowPtr[r + 1] < gen.rowPtr[r + 2]
            /\ columns[Len(columns)] = r
            /\ \A j \in 1 .. Len(columns) - 1 : columns[j] # r
            /\ Distinct(columns)
            /\ \A j \in DOMAIN columns : columns[j] \in 0 .. gen.ncols - 1

\* C25: whenever the sampling loop of either generator is to fill an entry
\* of a row, the sampler can reach a column the row does not hold yet.
C25_ColumnReachable ==
  (gen.pc = "fill" /\ gen.row < gen.nrows /\ Len(gen.colInd) < SampleEnd(gen)) =>
    Positions(gen.row, gen.bandwidth, gen.ncols) \ InRow(gen) # {}

\* C28: convert_edge_list_to_csr and convert_undirected_edge_list_to_csr
\* never read the sorted edge array at or past its end, for every edge list
\* with endpoints in [0, nv), and leave xadj with xadj[0] = 0, non-decreasing
\* and xadj[nv] = ne (2 * ne for the undirected one), row i holding exactly
\* the destinations of the edges whose source is i.
C28_EdgeListToCsr ==
  call.fn \in {"convert_edge_list_to_csr", "convert_undirected_edge_list_to_csr"} =>
    LET l == call.in
        out == call.out
        both == call.fn = "convert_undirected_edge_list_to_csr"
        Destinations(i, d) ==
          Cardinality({k \in 1 .. l.ne : l.srcs[k] = i /\ l.dests[k] = d})
          + (IF both
               THEN Cardinality({k \in 1 .. l.ne : l.dests[k] = i /\ l.srcs[k] = d})
               ELSE 0)
    IN /\ ~out.past_end
       /\ out.kind = "ok"
       /\ Len(out.xadj) = l.nv + 1
       /\ out.xadj[1] = 0
       /\ out.xadj[l.nv + 1] = (IF both THEN 2 * l.ne ELSE l.ne)
       /\ \A i \in 0 .. l.nv - 1 :
            /\ out.xadj[i + 1] <= out.xadj[i + 2]
            /\ \A d \in 0 .. l.nv - 1 :
                 Cardinality({k \in out.xadj[i + 1] + 1 .. out.xadj[i + 2] :
                                out.adj[k] = d}) = Destinations(i, d)

\* The fields of the handle other than the six dimensions and counters and
\* the three tuning fields.
Derived == <<arrays, iw, symbolic_complete>>

\* C26: reset_handle leaves the algorithm selector, team_size and
\* vector_size as they were, from every prior state; each scalar mutator
\* changes its own field only, and the matching getter then returns the
\* value set.
C26_FrameEffect ==
  [][/\ op' = "reset_handle" =>
          /\ get_algorithm' = get_algorithm
          /\ get_team_size' = get_team_size
          /\ get_vector_size' = get_vector_size
     /\ op' = "set_nrows" =>
          /\ get_nrows' = ToSizeType(args'[1])
          /\ UNCHANGED <<Derived, tuning, nlevels, nnzL, nnzU, level_maxrows,
                         level_maxrowsperchunk>>
     /\ op' = "set_nnzL" =>
          /\ get_nnzL' = ToSizeType(args'[1])
          /\ UNCHANGED <<Derived, tuning, nrows, nlevels, nnzU, level_maxrows,
                         level_maxrowsperchunk>>
     /\ op' = "set_nnzU" =>
          /\ get_nnzU' = ToSizeType(args'[1])
          /\ UNCHANGED <<Derived, tuning, nrows, nlevels, nnzL, level_maxrows,
                         level_maxrowsperchunk>>
     /\ op' = "set_num_levels" =>
          /\ get_num_levels' = ToSizeType(args'[1])
          /\ UNCHANGED <<Derived, tuning, nrows, nnzL, nnzU, level_maxrows,
                         level_maxrowsperchunk>>
     /\ op' = "set_level_maxrows" =>
          /\ get_level_maxrows' = ToSizeType(args'[1])
          /\ UNCHANGED <<Derived, tuning, nrows, nlevels, nnzL, nnzU,
                         level_maxrowsperchunk>>
     /\ op' = "set_level_maxrowsperchunk" =>
          /\ get_level_maxrowsperchunk' = ToSizeType(args'[1])
          /\ UNCHANGED <<Derived, tuning, nrows, nlevels, nnzL, nnzU,
                         level_maxrows>>
     /\ op' = "set_team_size" =>
          /\ get_team_size' = args'[1]
          /\ UNCHANGED <<Derived, scalars, algm, vector_size>>
     /\ op' = "set_vector_size" =>
          /\ get_vector_size' = args'[1]
          /\ UNCHANGED <<Derived, scalars, algm, team_size>>
     /\ op' = "set_algorithm" =>
          /\ get_algorithm' = args'[1]
          /\ UNCHANGED <<Derived, scalars, team_size, vector_size>>]_vars

C26_Witness ==
  /\ op = "reset_handle" /\ ret.kind = "void"
  /\ pre.complete
  /\ get_algorithm = "SEQLVLSCHD_TP1" /\ get_team_size = 4 /\ get_vector_size = 4
  /\ get_level_maxrows = 0 /\ ~is_symbolic_complete

\* reset_handle is the only operation that gives level_ptr entries
\* (nrows + 1 of them), so a level_ptr with entries tells that one returned.
LevelArraysAllocated == level_ptr # EmptyView

\* C27: over any sequence of handle operations the completion flag becomes
\* true only through set_symbolic_complete, stays true across every getter,
\* scalar setter and alloc_* operation, becomes false again only through
\* reset_handle or reset_symbolic_complete, and becomes true only on a
\* handle whose level arrays a preceding reset_handle allocated.
C27_FlagLifecycle ==
  [][/\ (~is_symbolic_complete /\ is_symbolic_complete') =>
          /\ op' = "set_symbolic_complete"
          /\ LevelArraysAllocated
     /\ (is_symbolic_complete /\ ~is_symbolic_complete') =>
          op' \in {"reset_handle", "reset_symbolic_complete"}]_vars
====
